---- MODULE Spec2Model ----
(***************************************************************************)
(* Extraction subsystem of codegraph (src/src/extraction/tree-sitter.ts):  *)
(* the generic CST walker TreeSitterExtractor, the regex based             *)
(* LiquidExtractor and the entry point extractFromSource.                  *)
(*                                                                         *)
(* The CST is read through the parser's node API while the walker          *)
(* descends, so the model reveals it node by node: every visit draws the   *)
(* next CST node (type, name children, callee, module, heritage) and Leave *)
(* says that the node whose children are being visited has no more named   *)
(* children.  The sequence of nodes and leaves read so far is kept in      *)
(* `input` (the pre-order serialisation of the tree), so a second          *)
(* extraction of the same bytes reads the same tree again.                 *)
(*                                                                         *)
(* Positions: a node read when R more nodes can be visited spans 2^R        *)
(* characters from the parser's position, its children start one character *)
(* after its start and each where the one before ended, so every node lies *)
(* inside its parent.  The source is written either on one line (step 0),  *)
(* or with a line break after every character (step 1).                    *)
(*                                                                         *)
(* A Liquid template is a sequence of tokens, each standing for a fixed    *)
(* piece of text (see TokenLen), over which the four regular expressions   *)
(* of LiquidExtractor are evaluated.                                       *)
(*                                                                         *)
(* The HTTP transport of the MCP server (src/src/mcp/http-transport.ts) is *)
(* modelled next to it: HttpTransport with its map of pending responses,   *)
(* its handleRequest calls suspended at their awaits, and the handler's    *)
(* calls of send() (SpecHttp).                                             *)
(***************************************************************************)
EXTENDS Integers, Sequences, FiniteSets, TLC

\* ------------------------------------------------------------------ bounds
\* CST nodes one walk may visit (the root `program` node not counted).
MaxCstNodes == 3
\* HTTP connections made to one HttpTransport.
MaxRequests == 2
\* Tokens of a Liquid template.
MaxLiquidTokens == 3

\* null / undefined
None == "<none>"

\* ------------------------------------------------------------- small helpers
Last(s) == s[Len(s)]
Front(s) == SubSeq(s, 1, Len(s) - 1)

RECURSIVE Join(_, _)
\* Array.prototype.join
Join(parts, sep) ==
  IF parts = <<>> THEN ""
  ELSE IF Len(parts) = 1 THEN parts[1]
  ELSE parts[1] \o sep \o Join(Tail(parts), sep)

RECURSIVE SumSeq(_)
SumSeq(s) == IF s = <<>> THEN 0 ELSE s[1] + SumSeq(Tail(s))

\* ------------------------------------------------------------------- files
\* A path is its directory segments, base name and extension.
Files ==
  { [dir |-> <<"src">>, base |-> "a", ext |-> "ts"],
    [dir |-> <<>>, base |-> "m", ext |-> "go"],
    [dir |-> <<>>, base |-> "k", ext |-> "kt"],
    [dir |-> <<>>, base |-> "v", ext |-> "swift"],
    [dir |-> <<"t">>, base |-> "i", ext |-> "liquid"],
    [dir |-> <<>>, base |-> "s", ext |-> "css"] }

FileName(f) == f.base \o "." \o f.ext
PathStr(f) == Join(f.dir \o <<FileName(f)>>, "/")
\* filePath.split('/').pop() || filePath
Basename(f) == Last(f.dir \o <<FileName(f)>>)

\* grammars.detectLanguage: by extension only.
detectLanguage(f) ==
  CASE f.ext = "ts" -> "typescript"
    [] f.ext = "go" -> "go"
    [] f.ext = "kt" -> "kotlin"
    [] f.ext = "swift" -> "swift"
    [] f.ext = "liquid" -> "liquid"
    [] OTHER -> "unknown"

\* ------------------------------------------------------------ policy table
\* EXTRACTORS: the type sets of every policy (tsx and jsx share the records
\* of typescript and javascript).
EXTRACTORS ==
  [
    typescript |->
      [ functionTypes |-> {"function_declaration", "arrow_function", "function_expression"},
        classTypes |-> {"class_declaration"},
        methodTypes |-> {"method_definition", "public_field_definition"},
        interfaceTypes |-> {"interface_declaration"},
        structTypes |-> {},
        enumTypes |-> {"enum_declaration"},
        importTypes |-> {"import_statement"},
        callTypes |-> {"call_expression"} ],
    javascript |->
      [ functionTypes |-> {"function_declaration", "arrow_function", "function_expression"},
        classTypes |-> {"class_declaration"},
        methodTypes |-> {"method_definition", "field_definition"},
        interfaceTypes |-> {},
        structTypes |-> {},
        enumTypes |-> {},
        importTypes |-> {"import_statement"},
        callTypes |-> {"call_expression"} ],
    python |->
      [ functionTypes |-> {"function_definition"},
        classTypes |-> {"class_definition"},
        methodTypes |-> {"function_definition"},
        interfaceTypes |-> {},
        structTypes |-> {},
        enumTypes |-> {},
        importTypes |-> {"import_statement", "import_from_statement"},
        callTypes |-> {"call"} ],
    go |->
      [ functionTypes |-> {"function_declaration"},
        classTypes |-> {},
        methodTypes |-> {"method_declaration"},
        interfaceTypes |-> {"interface_type"},
        structTypes |-> {"struct_type"},
        enumTypes |-> {},
        importTypes |-> {"import_declaration"},
        callTypes |-> {"call_expression"} ],
    rust |->
      [ functionTypes |-> {"function_item"},
        classTypes |-> {},
        methodTypes |-> {"function_item"},
        interfaceTypes |-> {"trait_item"},
        structTypes |-> {"struct_item"},
        enumTypes |-> {"enum_item"},
        importTypes |-> {"use_declaration"},
        callTypes |-> {"call_expression"} ],
    java |->
      [ functionTypes |-> {},
        classTypes |-> {"class_declaration"},
        methodTypes |-> {"method_declaration", "constructor_declaration"},
        interfaceTypes |-> {"interface_declaration"},
        structTypes |-> {},
        enumTypes |-> {"enum_declaration"},
        importTypes |-> {"import_declaration"},
        callTypes |-> {"method_invocation"} ],
    c |->
      [ functionTypes |-> {"function_definition"},
        classTypes |-> {},
        methodTypes |-> {},
        interfaceTypes |-> {},
        structTypes |-> {"struct_specifier"},
        enumTypes |-> {"enum_specifier"},
        importTypes |-> {"preproc_include"},
        callTypes |-> {"call_expression"} ],
    cpp |->
      [ functionTypes |-> {"function_definition"},
        classTypes |-> {"class_specifier"},
        methodTypes |-> {"function_definition"},
        interfaceTypes |-> {},
        structTypes |-> {"struct_specifier"},
        enumTypes |-> {"enum_specifier"},
        importTypes |-> {"preproc_include"},
        callTypes |-> {"call_expression"} ],
    csharp |->
      [ functionTypes |-> {},
        classTypes |-> {"class_declaration"},
        methodTypes |-> {"method_declaration", "constructor_declaration"},
        interfaceTypes |-> {"interface_declaration"},
        structTypes |-> {"struct_declaration"},
        enumTypes |-> {"enum_declaration"},
        importTypes |-> {"using_directive"},
        callTypes |-> {"invocation_expression"} ],
    php |->
      [ functionTypes |-> {"function_definition"},
        classTypes |-> {"class_declaration"},
        methodTypes |-> {"method_declaration"},
        interfaceTypes |-> {"interface_declaration"},
        structTypes |-> {},
        enumTypes |-> {"enum_declaration"},
        importTypes |-> {"namespace_use_declaration"},
        callTypes |-> {"function_call_expression", "member_call_expression", "scoped_call_expression"} ],
    ruby |->
      [ functionTypes |-> {"method"},
        classTypes |-> {"class"},
        methodTypes |-> {"method", "singleton_method"},
        interfaceTypes |-> {},
        structTypes |-> {},
        enumTypes |-> {},
        importTypes |-> {"call"},
        callTypes |-> {"call", "method_call"} ],
    swift |->
      [ functionTypes |-> {"function_declaration"},
        classTypes |-> {"class_declaration"},
        methodTypes |-> {"function_declaration"},
        interfaceTypes |-> {"protocol_declaration"},
        structTypes |-> {"struct_declaration"},
        enumTypes |-> {"enum_declaration"},
        importTypes |-> {"import_declaration"},
        callTypes |-> {"call_expression"} ],
    kotlin |->
      [ functionTypes |-> {"function_declaration"},
        classTypes |-> {"class_declaration", "object_declaration"},
        methodTypes |-> {"function_declaration"},
        interfaceTypes |-> {"class_declaration"},
        structTypes |-> {},
        enumTypes |-> {"class_declaration"},
        importTypes |-> {"import_header"},
        callTypes |-> {"call_expression"} ],
    tsx |->
      [ functionTypes |-> {"function_declaration", "arrow_function", "function_expression"},
        classTypes |-> {"class_declaration"},
        methodTypes |-> {"method_definition", "public_field_definition"},
        interfaceTypes |-> {"interface_declaration"},
        structTypes |-> {},
        enumTypes |-> {"enum_declaration"},
        importTypes |-> {"import_statement"},
        callTypes |-> {"call_expression"} ],
    jsx |->
      [ functionTypes |-> {"function_declaration", "arrow_function", "function_expression"},
        classTypes |-> {"class_declaration"},
        methodTypes |-> {"method_definition", "field_definition"},
        interfaceTypes |-> {},
        structTypes |-> {},
        enumTypes |-> {},
        importTypes |-> {"import_statement"},
        callTypes |-> {"call_expression"} ] ]

PolicyLanguages == DOMAIN EXTRACTORS

\* grammars.isLanguageSupported: a parser and a policy, or the pattern based Liquid.
isLanguageSupported(l) == l \in PolicyLanguages \cup {"liquid"}

\* ----------------------------------------------------------------- identity
\* sha256(...).digest('hex').substring(0, 32): collision free on the inputs
\* of the model, so it is modelled as an injective tag of its input.
Sha256Hex32(s) == "#" \o s

generateNodeId(filePath, kind, name, line) ==
  kind \o ":" \o Sha256Hex32(filePath \o ":" \o kind \o ":" \o name \o ":" \o ToString(line))

\* ---------------------------------------------------------------- the state
VARIABLES
  file,                  \* filePath argument of extractFromSource
  language,              \* this.language
  source,                \* this.source of a Liquid template, as tokens
  pc,                    \* "start", "walk", "liquid1".."liquid4", "done", "escaped"
  nodes,                 \* this.nodes
  edges,                 \* this.edges
  unresolvedReferences,  \* this.unresolvedReferences
  errors,                \* this.errors
  nodeStack,             \* this.nodeStack
  frames,                \* the open visitNode / handler calls, outermost first
  cur,                   \* where the parser's next node starts: [off, step]
  cstCount,              \* CST nodes visited by this walk
  input,                 \* the nodes, leaves and failures read so far
  pos,                   \* how much of `input` this extraction has read
  run,                   \* 1: first extraction; the same input again, 2: by a new
                         \* extractor, 3: by extract() on the same instance
  first,                 \* <<the lists the first extraction returned, the record
                         \* it returned>>, <<>> before
  result,                \* <<the record extract() returned>>, <<>> before
  scopes,                \* per emitted node, the names of the scopes open at its emission
  server,                \* HttpTransport: this.server, None or "listening"
  messageHandler,        \* HttpTransport: this.messageHandler, None or "handler"
  pendingResponses,      \* HttpTransport: this.pendingResponses, message id -> res
  calls,                 \* per connection, the handleRequest call made for it
  written                \* per connection, what was written to its res, in order

\* The fields of an HttpTransport and the requests made to it.
transport == <<server, messageHandler, pendingResponses, calls, written>>

Connections == 1..MaxRequests

\* new Map()
EmptyMap == [id \in {} |-> 0]

\* No handleRequest call was made for the connection yet.
Idle == [pc |-> "idle", req |-> <<>>, body |-> <<>>]

\* new HttpTransport(config), before start(): no server, no handler, an empty
\* map.  It is the transport part of every state of an extraction.
NoTransport ==
  /\ server = None
  /\ messageHandler = None
  /\ pendingResponses = EmptyMap
  /\ calls = [c \in Connections |-> Idle]
  /\ written = [c \in Connections |-> <<>>]

\* The state of an extraction.
extraction == <<file, language, source, pc, nodes, edges, unresolvedReferences, errors,
                nodeStack, frames, cur, cstCount, input, pos, run, first, result, scopes>>

vars == <<file, language, source, pc, nodes, edges, unresolvedReferences, errors,
          nodeStack, frames, cur, cstCount, input, pos, run, first, result, scopes,
          server, messageHandler, pendingResponses, calls, written>>

\* The fields of the extractor instance and of its walk.
walk == <<nodes, edges, unresolvedReferences, errors, nodeStack, frames, cur, cstCount, scopes>>

\* --------------------------------------------------------------- CST input
\* One named CST node as the handlers read it:
\*   type      node.type
\*   field     text of childForFieldName(nameField), None when absent
\*   ident     text of the first identifier typed named child, None when absent
\*   row, col        startPosition.row, startPosition.column
\*   endRow, endCol  endPosition.row, endPosition.column
\*   module    text of the imported module ("" when the child is absent)
\*   callee    the callee expression of a call, None when absent
\*   heritage  the heritage clause children of a class (TypeScript), the
\*             delegation_specifier (Kotlin) or inheritance_specifier (Swift)
\*             children of a declaration; `inner` is the type of the
\*             specifier's named child, `names` the text of its user_type
\*   keywords  the types of the keyword token children, in order
\*   pattern   text of the simple_identifier inside the variable_declaration
\*             (Kotlin) or pattern (Swift) child, None when absent
\*   modifiers text of the modifiers child, "" when absent
\*   constraints  text of the type_constraints child, "" when absent
Blank ==
  [type |-> "", field |-> None, ident |-> None, row |-> 0, col |-> 0, endRow |-> 0,
   endCol |-> 0, module |-> "", callee |-> None, heritage |-> <<>>, keywords |-> <<>>,
   pattern |-> None, modifiers |-> "", constraints |-> ""]

Event(t) == [Blank EXCEPT !.type = t]

NoCallee == [type |-> "", text |-> "", property |-> None]
PlainCallee == [type |-> "identifier", text |-> "f", property |-> None]
MemberCallee == [type |-> "member_expression", text |-> "o.g", property |-> "g"]

Decl(t, field, ident) == [Blank EXCEPT !.type = t, !.field = field, !.ident = ident]
Call(t, callee) == [Blank EXCEPT !.type = t, !.callee = callee]
Import(t, module) == [Blank EXCEPT !.type = t, !.module = module]

E == EXTRACTORS[language]

\* A TypeScript declaration has a name field, an arrow function has no name.
TypeScriptShapes ==
  { Decl("function_declaration", "A", None),
    Decl("arrow_function", None, None),
    Decl("class_declaration", "A", None),
    [Decl("class_declaration", "A", None) EXCEPT
       !.heritage = <<[type |-> "class_heritage", names |-> <<"S">>]>>],
    Decl("method_definition", "A", None),
    Decl("method_definition", "B", None),
    Decl("interface_declaration", "A", None),
    Decl("enum_declaration", "A", None),
    Import("import_statement", "m"),
    Call("call_expression", PlainCallee),
    Event("statement_block") }

\* A Go struct_type or interface_type has neither a name field nor an
\* identifier child (its name is on the enclosing type_spec).
GoShapes ==
  { Decl("function_declaration", "A", None),
    Decl("method_declaration", "A", None),
    Decl("struct_type", None, None),
    Decl("interface_type", None, None),
    Import("import_declaration", "m"),
    Call("call_expression", PlainCallee),
    Event("block") }

\* Inside a function or method body: calls, a nested declaration and a node
\* of no handled type.
TypeScriptBodyShapes ==
  { Call("call_expression", PlainCallee),
    Call("call_expression", MemberCallee),
    Decl("class_declaration", "A", None),
    Event("statement_block") }

GoBodyShapes ==
  { Call("call_expression", PlainCallee),
    Call("call_expression", MemberCallee),
    Decl("struct_type", None, None),
    Event("block") }

\* A delegation_specifier (Kotlin) or inheritance_specifier (Swift) child:
\* its one named child is of type `inner` and names the type `name`.
Specifier(t, inner, name) == [type |-> t, inner |-> inner, names |-> <<name>>]

\* A Kotlin or Swift declaration: its keyword tokens, the type identifier
\* that names it and its specifiers.
Declaration(t, keywords, ident, heritage) ==
  [Blank EXCEPT !.type = t, !.keywords = keywords, !.ident = ident, !.heritage = heritage]

Property(t, pattern) == [Blank EXCEPT !.type = t, !.pattern = pattern]

\* Kotlin: the name of a function is a simple_identifier child, the name of a
\* class, interface, enum or object a type_identifier child.
KotlinShapes ==
  { Decl("function_declaration", "A", None),
    Declaration("class_declaration", <<"class">>, "A",
                <<Specifier("delegation_specifier", "constructor_invocation", "P"),
                  Specifier("delegation_specifier", "user_type", "I")>>),
    Declaration("class_declaration", <<"class">>, "A",
                <<Specifier("delegation_specifier", "user_type", "I"),
                  Specifier("delegation_specifier", "constructor_invocation", "P")>>),
    Declaration("class_declaration", <<"interface">>, "A", <<>>),
    Declaration("class_declaration", <<"enum", "class">>, "A", <<>>),
    Declaration("object_declaration", <<"object">>, "A",
                <<Specifier("delegation_specifier", "constructor_invocation", "P")>>),
    Decl("companion_object", None, None),
    Decl("companion_object", None, "C"),
    Property("property_declaration", "A"),
    Call("call_expression", PlainCallee),
    Event("package_header") }

\* The children of a Kotlin enum_class_body.
KotlinEnumBodyShapes ==
  { Decl("enum_entry", None, "A"),
    Decl("function_declaration", "A", None) }

KotlinBodyShapes ==
  { Call("call_expression", PlainCallee),
    Call("call_expression", MemberCallee),
    Declaration("class_declaration", <<"class">>, "A", <<>>),
    Event("statements") }

\* Swift: class, struct, actor, extension and enum are class_declaration nodes.
SwiftShapes ==
  { Decl("function_declaration", "A", None),
    Declaration("class_declaration", <<"class">>, "A",
                <<Specifier("inheritance_specifier", "user_type", "S"),
                  Specifier("inheritance_specifier", "user_type", "P")>>),
    Declaration("class_declaration", <<"struct">>, "A",
                <<Specifier("inheritance_specifier", "user_type", "P")>>),
    Declaration("class_declaration", <<"enum">>, "A", <<>>),
    Declaration("class_declaration", <<"actor">>, "A", <<>>),
    [Declaration("class_declaration", <<"extension">>, "A", <<>>) EXCEPT
       !.constraints = "where T: P"],
    Declaration("protocol_declaration", <<"protocol">>, "A", <<>>),
    Property("property_declaration", "A"),
    Property("property_declaration", None),
    Event("init_declaration"),
    Event("subscript_declaration"),
    Call("call_expression", PlainCallee),
    Event("comment") }

\* The children of a Swift enum_class_body.
SwiftEnumBodyShapes ==
  { Decl("enum_entry", None, "A"),
    Decl("function_declaration", "A", None) }

\* The children of a Swift protocol_body.
SwiftProtocolBodyShapes ==
  { Decl("protocol_function_declaration", None, "A"),
    Property("property_declaration", "A") }

SwiftBodyShapes ==
  { Call("call_expression", PlainCallee),
    Call("call_expression", MemberCallee),
    Declaration("class_declaration", <<"struct">>, "A", <<>>),
    Event("statements") }

\* The CST nodes drawn where visitNode dispatches, before they are placed.
CstShapes ==
  CASE language = "typescript" -> TypeScriptShapes
    [] language = "kotlin" -> KotlinShapes
    [] language = "swift" -> SwiftShapes
    [] OTHER -> GoShapes

\* The CST nodes drawn inside a function or method body.
BodyShapes ==
  CASE language = "typescript" -> TypeScriptBodyShapes
    [] language = "kotlin" -> KotlinBodyShapes
    [] language = "swift" -> SwiftBodyShapes
    [] OTHER -> GoBodyShapes

\* The CST nodes drawn as children of an enum_class_body.
EnumBodyShapes == IF language = "kotlin" THEN KotlinEnumBodyShapes ELSE SwiftEnumBodyShapes

\* Characters of a node read when `budget` more nodes can be visited.
Width(budget) == 2 ^ budget

\* The shapes placed at the parser's position.
Placed(shapes) ==
  LET end == cur.off + Width(MaxCstNodes - cstCount) IN
  { [n EXCEPT !.row = cur.step * cur.off, !.col = cur.off,
              !.endRow = cur.step * end, !.endCol = end] : n \in shapes }

\* n is one of the shapes, placed at the parser's position.
IsPlaced(n, shapes) ==
  LET end == cur.off + Width(MaxCstNodes - cstCount) IN
  /\ n.row = cur.step * cur.off
  /\ n.col = cur.off
  /\ n.endRow = cur.step * end
  /\ n.endCol = end
  /\ [n EXCEPT !.row = 0, !.col = 0, !.endRow = 0, !.endCol = 0] \in shapes

\* Reading `ev` from the parser: free in the first extraction, the recorded
\* input in the second.
Reads(ev) ==
  /\ IF run = 1 THEN input' = Append(input, ev)
     ELSE pos < Len(input) /\ input[pos + 1] = ev /\ input' = input
  /\ pos' = pos + 1

\* ------------------------------------------------------------------- errors
ExtractionError(msg) == [message |-> msg, severity |-> "error"]

\* The record extract() returns.  `shared` says that its lists are the
\* instance's own arrays (this.nodes, ...), not fresh ones.
SharedResult == [shared |-> TRUE]

\* The early return without its error record.
FreshResultNoError(errs) ==
  [shared |-> FALSE, nodes |-> <<>>, edges |-> <<>>, unresolvedReferences |-> <<>>,
   errors |-> <<>>]

FreshResult(errs) ==
  [shared |-> FALSE, nodes |-> <<>>, edges |-> <<>>, unresolvedReferences |-> <<>>,
   errors |-> errs]

\* The lists of the returned record, as the caller reads them.
ResultOf(r) ==
  IF r.shared
  THEN [nodes |-> nodes, edges |-> edges, unresolvedReferences |-> unresolvedReferences,
        errors |-> errors]
  ELSE [nodes |-> r.nodes, edges |-> r.edges,
        unresolvedReferences |-> r.unresolvedReferences, errors |-> r.errors]

Returned == pc = "done" /\ result # <<>>
\* What the caller of extractFromSource holds.
Result == ResultOf(result[1])

\* --------------------------------------------------------------- visibility
\* text.includes(word), on the modifier texts of ModifierTexts.
Includes(text, word) ==
  \/ text = word
  \/ text = "fileprivate" /\ word = "private"
  \/ text = "pub(crate)" /\ word = "pub"
  \/ text = "public" /\ word = "pub"

\* The visibility a policy's getVisibility returns after it found no modifier
\* it knows: the value of its last return statement, None for `undefined` and
\* for a policy without getVisibility.
DefaultVisibilityAsDocumented(l) ==
  CASE l = "rust" -> "private"
    [] l \in {"php", "kotlin"} -> "public"
    [] l \in {"csharp", "swift"} -> "internal"
    [] OTHER -> None

DefaultVisibility(l) ==
  CASE l \in {"rust", "csharp"} -> "private"
    [] l \in {"php", "ruby", "kotlin"} -> "public"
    [] l = "swift" -> "internal"
    [] OTHER -> None

\* extractor.getVisibility?.(node): n.modifiers is the text of the child the
\* policy looks at (accessibility_modifier, visibility_modifier, modifiers,
\* modifier, the parent's access_specifier, the preceding visibility call),
\* "" when there is none.
getVisibility(l, n) ==
  LET text == n.modifiers
      Exact(words) == IF text \in words THEN text ELSE DefaultVisibility(l)
  IN
  CASE l \in {"typescript", "tsx"} -> Exact({"public", "private", "protected"})
    [] l = "rust" ->
         IF text = "" THEN DefaultVisibility(l)
         ELSE IF Includes(text, "pub") THEN "public" ELSE "private"
    [] l \in {"java", "cpp"} ->
         IF Includes(text, "public") THEN "public"
         ELSE IF Includes(text, "private") THEN "private"
         ELSE IF Includes(text, "protected") THEN "protected"
         ELSE DefaultVisibility(l)
    [] l = "csharp" -> Exact({"public", "private", "protected", "internal"})
    [] l = "php" -> Exact({"public", "private", "protected"})
    [] l = "ruby" -> Exact({"private", "protected", "public"})
    [] l = "swift" ->
         IF Includes(text, "public") THEN "public"
         ELSE IF Includes(text, "private") THEN "private"
         ELSE IF Includes(text, "internal") THEN "internal"
         ELSE IF Includes(text, "fileprivate") THEN "private"
         ELSE DefaultVisibility(l)
    [] l = "kotlin" ->
         IF Includes(text, "public") THEN "public"
         ELSE IF Includes(text, "private") THEN "private"
         ELSE IF Includes(text, "protected") THEN "protected"
         ELSE IF Includes(text, "internal") THEN "internal"
         ELSE DefaultVisibility(l)
    [] OTHER -> None

\* ------------------------------------------------------------- the handlers
Top == Last(nodeStack)

\* extractName: the name field, else the first identifier child, else the
\* sentinel.  (A C declarator, which the enumerated languages do not have,
\* would be unwrapped one level.)
extractName(n) ==
  IF n.field # None THEN n.field
  ELSE IF n.ident # None THEN n.ident
  ELSE "<anonymous>"

\* buildQualifiedName: the file path, the name of the first emitted node with
\* each id of the stack, the name.
NameOfId(id) ==
  LET hits == { i \in 1..Len(nodes) : nodes[i].id = id } IN
  IF hits = {} THEN <<>>
  ELSE <<nodes[CHOOSE i \in hits : \A j \in hits : i <= j].name>>

RECURSIVE StackNames(_)
StackNames(stack) ==
  IF stack = <<>> THEN <<>> ELSE NameOfId(stack[1]) \o StackNames(Tail(stack))

\* The qualified name built from the innermost scope only.
buildQualifiedNameInnermost(name) ==
  Join(<<PathStr(file)>>
         \o (IF nodeStack = <<>> THEN <<>> ELSE NameOfId(Last(nodeStack)))
         \o <<name>>, "::")

buildQualifiedName(name) ==
  Join(<<PathStr(file)>> \o StackNames(nodeStack) \o <<name>>, "::")

\* The names of the open scopes, outermost first (kept beside each emitted node).
RECURSIVE ScopeNames(_)
ScopeNames(fs) ==
  IF fs = <<>> THEN <<>>
  ELSE (IF fs[1].pop THEN <<fs[1].name>> ELSE <<>>) \o ScopeNames(Tail(fs))

\* The id hashed from the end line.
NodeIdOfEndLine(kind, name, n) == generateNodeId(PathStr(file), kind, name, n.endRow + 1)

\* The id hashed from the start line and the time of the extraction.
NodeIdOfClock(kind, name, n) == generateNodeId(PathStr(file), kind, name, n.row + 1 + run)

NodeIdOf(kind, name, n) == generateNodeId(PathStr(file), kind, name, n.row + 1)

\* The Node object createNode builds.
NewNode(kind, name, n) ==
  [ id |-> NodeIdOf(kind, name, n),
    kind |-> kind,
    name |-> name,
    qualifiedName |-> buildQualifiedName(name),
    filePath |-> PathStr(file),
    language |-> language,
    startLine |-> n.row + 1,
    endLine |-> n.endRow + 1,
    startColumn |-> n.col,
    endColumn |-> n.endCol,
    updatedAt |-> run ]

\* The Node object createNode builds when `extra` is {isStatic: true}.
NewStaticNode(kind, name, n) ==
  [ id |-> NodeIdOf(kind, name, n),
    kind |-> kind,
    name |-> name,
    qualifiedName |-> buildQualifiedName(name),
    filePath |-> PathStr(file),
    language |-> language,
    startLine |-> n.row + 1,
    endLine |-> n.endRow + 1,
    startColumn |-> n.col,
    endColumn |-> n.endCol,
    updatedAt |-> run,
    isStatic |-> TRUE ]

\* createNode: push the node, and a contains edge from the top of the stack.
createNodeWith(new, n) ==
  /\ nodes' = Append(nodes, new)
  /\ scopes' = Append(scopes, ScopeNames(frames))
  /\ edges' =
       IF nodeStack # <<>>
       THEN Append(edges, [source |-> Top, target |-> new.id, kind |-> "contains"])
       ELSE edges

createNode(kind, name, n) ==
  /\ nodes' = Append(nodes, NewNode(kind, name, n))
  /\ scopes' = Append(scopes, ScopeNames(frames))
  /\ edges' =
       IF nodeStack # <<>>
       THEN Append(edges, [source |-> Top, target |-> NodeIdOf(kind, name, n), kind |-> "contains"])
       ELSE edges

\* The handler returns without visiting the node's children: the parser's
\* position moves past the node.
Skip(n) ==
  /\ frames' = frames
  /\ cur' = [cur EXCEPT !.off = n.endCol]

\* The handler goes on to visit the node's (body's) named children, which
\* start after the node's first character and its heritage clauses.
Enter(n, mode, pop, name) ==
  /\ frames' = Append(frames, [mode |-> mode, pop |-> pop, name |-> name, end |-> n.endCol,
                               type |-> n.type])
  /\ cur' = [cur EXCEPT !.off = n.col + 1 + Len(n.heritage)]

Reference(from, name, kind, n) ==
  [fromNodeId |-> from, referenceName |-> name, referenceKind |-> kind,
   line |-> n.row + 1, column |-> n.col]

\* extractFunction that searches the body of an anonymous function for calls.
extractFunctionSearchingAnonymous(n) ==
  LET name == extractName(n) IN
  IF name = "<anonymous>"
  THEN /\ UNCHANGED <<nodes, edges, scopes, unresolvedReferences, nodeStack>>
       /\ Enter(n, "calls", FALSE, "")
  ELSE /\ createNode("function", name, n)
       /\ UNCHANGED unresolvedReferences
       /\ nodeStack' = Append(nodeStack, NodeIdOf("function", name, n))
       /\ Enter(n, "calls", TRUE, name)

\* extractFunction: nothing for an anonymous function; else the node is
\* emitted and pushed, and its body is searched for calls (visitFunctionBody).
extractFunction(n) ==
  LET name == extractName(n) IN
  IF name = "<anonymous>"
  THEN /\ UNCHANGED <<nodes, edges, scopes, unresolvedReferences, nodeStack>>
       /\ Skip(n)
  ELSE /\ createNode("function", name, n)
       /\ UNCHANGED unresolvedReferences
       /\ nodeStack' = Append(nodeStack, NodeIdOf("function", name, n))
       /\ Enter(n, "calls", TRUE, name)

\* The k-th heritage clause of class node n, as a positioned CST node.
Clause(n, k) ==
  [n EXCEPT !.row = cur.step * (n.col + k), !.col = n.col + k]

\* extractInheritance: the references of the heritage clauses from the k-th
\* on, in order.
RECURSIVE InheritanceRefs(_, _, _)
InheritanceRefs(n, k, classId) ==
  IF k > Len(n.heritage) THEN <<>>
  ELSE
    LET child == n.heritage[k]
        ext == IF child.type \in {"extends_clause", "class_heritage", "superclass"}
                  /\ child.names # <<>>
               THEN <<Reference(classId, child.names[1], "extends", Clause(n, k))>>
               ELSE <<>>
        impl == IF child.type \in {"implements_clause", "class_interface_clause"}
                THEN [j \in 1..Len(child.names) |->
                        Reference(classId, child.names[j], "implements", Clause(n, k))]
                ELSE <<>>
    IN ext \o impl \o InheritanceRefs(n, k + 1, classId)

\* extractClass: the node is emitted whatever extractName returned.
extractClass(n) ==
  LET name == extractName(n) IN
  /\ createNode("class", name, n)
  /\ unresolvedReferences' =
       unresolvedReferences \o InheritanceRefs(n, 1, NodeIdOf("class", name, n))
  /\ nodeStack' = Append(nodeStack, NodeIdOf("class", name, n))
  /\ Enter(n, "visit", TRUE, name)

\* extractMethod without the exception for Go: a method at top level is a
\* function in every language.
extractMethodNoReceiver(n) ==
  LET name == extractName(n) IN
  IF nodeStack = <<>>
  THEN extractFunction(n)
  ELSE /\ createNode("method", name, n)
       /\ UNCHANGED unresolvedReferences
       /\ nodeStack' = Append(nodeStack, NodeIdOf("method", name, n))
       /\ Enter(n, "calls", TRUE, name)

\* extractMethod: at top level, and not in Go, the node is a function.
extractMethod(n) ==
  LET name == extractName(n) IN
  IF nodeStack = <<>> /\ language # "go"
  THEN extractFunction(n)
  ELSE /\ createNode("method", name, n)
       /\ UNCHANGED unresolvedReferences
       /\ nodeStack' = Append(nodeStack, NodeIdOf("method", name, n))
       /\ Enter(n, "calls", TRUE, name)

\* extractInterface: the node is emitted; visitNode then skips its children.
extractInterface(n) ==
  /\ createNode(IF language = "rust" THEN "trait" ELSE "interface", extractName(n), n)
  /\ UNCHANGED <<unresolvedReferences, nodeStack>>
  /\ Skip(n)

extractStruct(n) ==
  LET name == extractName(n) IN
  /\ createNode("struct", name, n)
  /\ UNCHANGED unresolvedReferences
  /\ nodeStack' = Append(nodeStack, NodeIdOf("struct", name, n))
  /\ Enter(n, "visit", TRUE, name)

\* extractEnum: the node is emitted; visitNode then skips its children.
extractEnum(n) ==
  /\ createNode("enum", extractName(n), n)
  /\ UNCHANGED <<unresolvedReferences, nodeStack>>
  /\ Skip(n)

\* extractImport: a reference only from inside a scope; n.module is the
\* module name the language's branch computes.
ImportRefs(n) ==
  IF n.module # "" /\ nodeStack # <<>>
  THEN <<Reference(Top, n.module, "imports", n)>>
  ELSE <<>>

\* extractCall: nothing at top level; else the callee's name.
CalleeName(func) ==
  IF func = NoCallee THEN ""
  ELSE IF func.type \in {"member_expression", "attribute"}
       THEN (IF func.property # None THEN func.property ELSE "")
       ELSE func.text

\* extractCall without its early return: a call at top level is recorded
\* against the file.
CallRefsFromFile(n) ==
  IF CalleeName(n.callee) # ""
  THEN <<Reference(IF nodeStack = <<>> THEN PathStr(file) ELSE Last(nodeStack),
                   CalleeName(n.callee), "calls", n)>>
  ELSE <<>>

CallRefs(n) ==
  IF nodeStack = <<>> THEN <<>>
  ELSE IF CalleeName(n.callee) # ""
       THEN <<Reference(Top, CalleeName(n.callee), "calls", n)>>
       ELSE <<>>

\* ------------------------------------------------------ the Kotlin handlers
\* kotlinHasModifier, on the text of the modifiers child.
kotlinHasModifier(n, modifier) == n.modifiers = modifier

isKotlinInterface(n) == \E i \in 1..Len(n.keywords) : n.keywords[i] = "interface"

isKotlinEnum(n) == \E i \in 1..Len(n.keywords) : n.keywords[i] = "enum"

\* extractKotlinInheritance: the references of the delegation specifiers from
\* the k-th on, in order; isFirst is false once a reference was pushed.
RECURSIVE KotlinInheritanceRefs(_, _, _, _)
KotlinInheritanceRefs(n, k, classId, isFirst) ==
  IF k > Len(n.heritage) THEN <<>>
  ELSE
    LET child == n.heritage[k]
        invocation == /\ child.type = "delegation_specifier"
                      /\ child.inner = "constructor_invocation"
                      /\ child.names # <<>>
        plain == child.type = "delegation_specifier" /\ child.inner = "user_type"
        refs == IF invocation
                THEN <<Reference(classId, child.names[1],
                                 IF isFirst THEN "extends" ELSE "implements", Clause(n, k))>>
                ELSE IF plain
                     THEN <<Reference(classId, child.names[1], "implements", Clause(n, k))>>
                     ELSE <<>>
    IN refs \o KotlinInheritanceRefs(n, k + 1, classId, isFirst /\ ~invocation /\ ~plain)

\* A Kotlin class, enum or object: the node, its inheritance references, and
\* the walk of its body with the node on the stack.
KotlinDeclaration(kind, mode, n) ==
  LET name == extractName(n) IN
  /\ createNode(kind, name, n)
  /\ unresolvedReferences' =
       unresolvedReferences \o KotlinInheritanceRefs(n, 1, NodeIdOf(kind, name, n), TRUE)
  /\ nodeStack' = Append(nodeStack, NodeIdOf(kind, name, n))
  /\ Enter(n, mode, TRUE, name)

extractKotlinClass(n) == KotlinDeclaration("class", "visit", n)

\* extractKotlinEnum: in the body an enum_entry is an enum member, every other
\* child is dispatched by visitNode.
extractKotlinEnum(n) == KotlinDeclaration("enum", "enumBody", n)

extractKotlinObject(n) == KotlinDeclaration("class", "visit", n)

\* The companion object that is not marked static.
extractKotlinCompanionObjectPlain(n) ==
  LET name == IF n.ident # None THEN n.ident ELSE "Companion" IN
  /\ createNode("class", name, n)
  /\ UNCHANGED unresolvedReferences
  /\ nodeStack' = Append(nodeStack, NodeIdOf("class", name, n))
  /\ Enter(n, "visit", TRUE, name)

\* extractKotlinCompanionObject: the name is the simple_identifier child, else
\* Companion; the children of its class_body are dispatched by visitNode.
extractKotlinCompanionObject(n) ==
  LET name == IF n.ident # None THEN n.ident ELSE "Companion" IN
  /\ createNodeWith(NewStaticNode("class", name, n), n)
  /\ UNCHANGED unresolvedReferences
  /\ nodeStack' = Append(nodeStack, NodeIdOf("class", name, n))
  /\ Enter(n, "visit", TRUE, name)

\* extractKotlinEnumEntry: the children of the entry are not visited.
extractKotlinEnumEntry(n) ==
  /\ createNode("enum_member", IF n.ident # None THEN n.ident ELSE "<unknown>", n)
  /\ UNCHANGED <<unresolvedReferences, nodeStack>>
  /\ Skip(n)

\* extractKotlinProperty: the node is emitted whatever the name search found;
\* visitNode then visits the children.
extractKotlinProperty(n) ==
  /\ createNode(IF kotlinHasModifier(n, "const") THEN "constant" ELSE "property",
                IF n.pattern # None THEN n.pattern ELSE "<unknown>", n)
  /\ UNCHANGED <<unresolvedReferences, nodeStack>>
  /\ Enter(n, "visit", FALSE, "")

\* ------------------------------------------------------- the Swift handlers
\* getSwiftDeclarationKind: the first keyword child that is one of the five.
RECURSIVE getSwiftDeclarationKind(_)
getSwiftDeclarationKind(keywords) ==
  IF keywords = <<>> THEN None
  ELSE IF keywords[1] \in {"class", "struct", "actor", "extension", "enum"} THEN keywords[1]
  ELSE getSwiftDeclarationKind(Tail(keywords))

\* getSwiftClassName: the type identifier (or user type) child, then the type
\* constraints after one space.
getSwiftClassName(n) ==
  (IF n.ident # None THEN n.ident ELSE "<unknown>")
    \o (IF n.constraints # "" THEN " " \o n.constraints ELSE "")

getSwiftPropertyName(n) == IF n.pattern # None THEN n.pattern ELSE "<unknown>"

\* extractSwiftInheritance: the references of the inheritance specifiers from
\* the k-th on, in order; isFirst is false once a reference was pushed.
RECURSIVE SwiftInheritanceRefs(_, _, _, _)
SwiftInheritanceRefs(n, k, classId, isFirst) ==
  IF k > Len(n.heritage) THEN <<>>
  ELSE
    LET child == n.heritage[k]
        named == /\ child.type = "inheritance_specifier"
                 /\ child.inner = "user_type"
                 /\ child.names # <<>>
        refs == IF named
                THEN <<Reference(classId, child.names[1],
                                 IF isFirst THEN "extends" ELSE "implements", Clause(n, k))>>
                ELSE <<>>
    IN refs \o SwiftInheritanceRefs(n, k + 1, classId, isFirst /\ ~named)

\* A Swift declaration: the node, its inheritance references, and the walk of
\* its body with the node on the stack.
SwiftDeclaration(kind, name, mode, n) ==
  /\ createNode(kind, name, n)
  /\ unresolvedReferences' =
       unresolvedReferences \o SwiftInheritanceRefs(n, 1, NodeIdOf(kind, name, n), TRUE)
  /\ nodeStack' = Append(nodeStack, NodeIdOf(kind, name, n))
  /\ Enter(n, mode, TRUE, name)

extractSwiftClass(n) == SwiftDeclaration("class", getSwiftClassName(n), "classBody", n)

extractSwiftStruct(n) == SwiftDeclaration("struct", getSwiftClassName(n), "classBody", n)

extractSwiftActor(n) == SwiftDeclaration("class", getSwiftClassName(n), "classBody", n)

extractSwiftExtension(n) == SwiftDeclaration("class", getSwiftClassName(n), "classBody", n)

extractSwiftEnum(n) == SwiftDeclaration("enum", getSwiftClassName(n), "enumBody", n)

\* Every class_declaration handled as a class.
extractSwiftClassDeclarationAsClass(n) == extractSwiftClass(n)

extractSwiftClassDeclaration(n) ==
  LET declKind == getSwiftDeclarationKind(n.keywords) IN
  CASE declKind = "extension" -> extractSwiftExtension(n)
    [] declKind = "actor" -> extractSwiftActor(n)
    [] declKind = "enum" -> extractSwiftEnum(n)
    [] declKind = "struct" -> extractSwiftStruct(n)
    [] OTHER -> extractSwiftClass(n)

\* extractSwiftProtocol: the name is the type identifier child.
extractSwiftProtocol(n) ==
  SwiftDeclaration("interface", IF n.ident # None THEN n.ident ELSE "<unknown>",
                   "protocolBody", n)

extractSwiftEnumCase(n) ==
  /\ createNode("enum_member", IF n.ident # None THEN n.ident ELSE "<unknown>", n)
  /\ UNCHANGED <<unresolvedReferences, nodeStack>>
  /\ Skip(n)

extractSwiftProtocolFunction(n) ==
  /\ createNode("method", IF n.ident # None THEN n.ident ELSE "<unknown>", n)
  /\ UNCHANGED <<unresolvedReferences, nodeStack>>
  /\ Skip(n)

\* isSwiftConstant: a value_binding_pattern child with a `let` token.
isSwiftConstant(n) == \E i \in 1..Len(n.keywords) : n.keywords[i] = "let"

\* extractSwiftProperty: the node is emitted whatever the name search found.
\* visitNode then visits the children; visitSwiftClassBody does not.
extractSwiftProperty(n) ==
  /\ createNode(IF isSwiftConstant(n) /\ nodeStack = <<>> THEN "constant" ELSE "property",
                getSwiftPropertyName(n), n)
  /\ UNCHANGED <<unresolvedReferences, nodeStack>>
  /\ IF Last(frames).mode = "classBody" THEN Skip(n) ELSE Enter(n, "visit", FALSE, "")

\* extractSwiftSubscript: the node is emitted; nothing is pushed and, as
\* visitNode and visitSwiftClassBody go on to the next sibling, the children
\* are not visited.
extractSwiftSubscript(n) ==
  /\ createNode("method", "subscript", n)
  /\ UNCHANGED <<unresolvedReferences, nodeStack>>
  /\ Skip(n)

\* extractSwiftInit: the children of the function body are dispatched by
\* visitNode (visitSwiftFunctionBody).
extractSwiftInit(n) ==
  /\ createNode("method", "init", n)
  /\ UNCHANGED unresolvedReferences
  /\ nodeStack' = Append(nodeStack, NodeIdOf("method", "init", n))
  /\ Enter(n, "visit", TRUE, "init")

\* ------------------------------------------------------------- the dispatch
\* visitNode's dispatch on the node, in its order.
Handler(n) ==
  LET t == n.type IN
  IF t \in E.functionTypes
  THEN (IF nodeStack # <<>> /\ t \in E.methodTypes THEN "extractMethod" ELSE "extractFunction")
  ELSE IF t \in E.classTypes
  THEN (IF language = "swift" /\ t = "class_declaration" THEN "extractSwiftClassDeclaration"
        ELSE IF language = "kotlin" /\ t = "class_declaration"
             THEN (IF isKotlinInterface(n) THEN "extractInterface"
                   ELSE IF isKotlinEnum(n) THEN "extractKotlinEnum"
                   ELSE "extractKotlinClass")
        ELSE IF language = "kotlin" /\ t = "object_declaration" THEN "extractKotlinObject"
        ELSE "extractClass")
  ELSE IF language = "kotlin" /\ t = "companion_object" THEN "extractKotlinCompanionObject"
  ELSE IF language = "kotlin" /\ t = "property_declaration" THEN "extractKotlinProperty"
  ELSE IF language = "kotlin" /\ t = "type_alias" THEN "extractKotlinTypeAlias"
  ELSE IF language = "swift" /\ t = "property_declaration" THEN "extractSwiftProperty"
  ELSE IF language = "swift" /\ t = "protocol_property_declaration" THEN "extractSwiftProperty"
  ELSE IF language = "swift" /\ t = "subscript_declaration" THEN "extractSwiftSubscript"
  ELSE IF language = "swift" /\ t = "typealias_declaration" THEN "extractSwiftTypealias"
  ELSE IF language = "swift" /\ t = "associatedtype_declaration" THEN "extractSwiftAssociatedType"
  ELSE IF language = "swift" /\ t = "init_declaration" THEN "extractSwiftInit"
  ELSE IF language = "swift" /\ t = "deinit_declaration" THEN "extractSwiftDeinit"
  ELSE IF t \in E.methodTypes THEN "extractMethod"
  ELSE IF t \in E.interfaceTypes
  THEN (IF language = "swift" /\ t = "protocol_declaration" THEN "extractSwiftProtocol"
        ELSE "extractInterface")
  ELSE IF t \in E.structTypes THEN "extractStruct"
  ELSE IF t \in E.enumTypes THEN "extractEnum"
  ELSE IF t \in E.importTypes THEN "extractImport"
  ELSE IF t \in E.callTypes THEN "extractCall"
  ELSE "none"

\* The handler called on a child of a body walked in `mode`: the body walks of
\* the Kotlin and Swift handlers take some child types themselves and hand
\* every other child to visitNode.
Dispatch(mode, n) ==
  LET t == n.type IN
  IF mode = "enumBody" /\ t = "enum_entry"
  THEN (IF language = "kotlin" THEN "extractKotlinEnumEntry" ELSE "extractSwiftEnumCase")
  ELSE IF mode = "protocolBody" /\ t = "associatedtype_declaration"
  THEN "extractSwiftAssociatedType"
  ELSE IF mode = "protocolBody" /\ t = "protocol_property_declaration"
  THEN "extractSwiftProtocolProperty"
  ELSE IF mode = "protocolBody" /\ t = "protocol_function_declaration"
  THEN "extractSwiftProtocolFunction"
  ELSE IF mode = "classBody" /\ t = "property_declaration" THEN "extractSwiftProperty"
  ELSE IF mode = "classBody" /\ t = "subscript_declaration" THEN "extractSwiftSubscript"
  ELSE IF mode = "classBody" /\ t = "init_declaration" THEN "extractSwiftInit"
  ELSE IF mode = "classBody" /\ t = "deinit_declaration" THEN "extractSwiftDeinit"
  ELSE IF mode = "classBody" /\ t = "typealias_declaration" THEN "extractSwiftTypealias"
  ELSE Handler(n)

\* --------------------------------------------------------------- the walk
\* visitNode is called on the next named child of the innermost open node.
Visiting(mode) ==
  /\ pc = "walk"
  /\ frames # <<>>
  /\ Last(frames).mode = mode
  /\ cstCount < MaxCstNodes

NextShapes ==
  CASE Last(frames).mode = "calls" -> BodyShapes
    [] Last(frames).mode = "enumBody" -> EnumBodyShapes
    [] Last(frames).mode = "protocolBody" -> SwiftProtocolBodyShapes
    [] OTHER -> CstShapes

NextNodes == Placed(NextShapes)

Visit(n, handler) ==
  /\ pc = "walk"
  /\ frames # <<>>
  /\ Last(frames).mode # "calls"
  /\ cstCount < MaxCstNodes
  /\ IsPlaced(n, NextShapes)
  /\ Dispatch(Last(frames).mode, n) = handler
  /\ Reads(n)
  /\ cstCount' = cstCount + 1
  /\ UNCHANGED <<transport, file, language, source, pc, errors, run, first, result>>

VisitFunction(n) == Visit(n, "extractFunction") /\ extractFunction(n)

VisitClass(n) == Visit(n, "extractClass") /\ extractClass(n)

VisitMethod(n) == Visit(n, "extractMethod") /\ extractMethod(n)

VisitInterface(n) == Visit(n, "extractInterface") /\ extractInterface(n)

VisitStruct(n) == Visit(n, "extractStruct") /\ extractStruct(n)

VisitEnum(n) == Visit(n, "extractEnum") /\ extractEnum(n)

VisitKotlinClass(n) == Visit(n, "extractKotlinClass") /\ extractKotlinClass(n)

VisitKotlinEnum(n) == Visit(n, "extractKotlinEnum") /\ extractKotlinEnum(n)

VisitKotlinObject(n) == Visit(n, "extractKotlinObject") /\ extractKotlinObject(n)

VisitKotlinCompanionObject(n) ==
  Visit(n, "extractKotlinCompanionObject") /\ extractKotlinCompanionObject(n)

VisitKotlinEnumEntry(n) == Visit(n, "extractKotlinEnumEntry") /\ extractKotlinEnumEntry(n)

VisitKotlinProperty(n) == Visit(n, "extractKotlinProperty") /\ extractKotlinProperty(n)

VisitSwiftClassDeclaration(n) ==
  Visit(n, "extractSwiftClassDeclaration") /\ extractSwiftClassDeclaration(n)

VisitSwiftProtocol(n) == Visit(n, "extractSwiftProtocol") /\ extractSwiftProtocol(n)

VisitSwiftEnumCase(n) == Visit(n, "extractSwiftEnumCase") /\ extractSwiftEnumCase(n)

VisitSwiftProtocolFunction(n) ==
  Visit(n, "extractSwiftProtocolFunction") /\ extractSwiftProtocolFunction(n)

VisitSwiftProperty(n) == Visit(n, "extractSwiftProperty") /\ extractSwiftProperty(n)

VisitSwiftSubscript(n) == Visit(n, "extractSwiftSubscript") /\ extractSwiftSubscript(n)

VisitSwiftInit(n) == Visit(n, "extractSwiftInit") /\ extractSwiftInit(n)

VisitImport(n) ==
  /\ Visit(n, "extractImport")
  /\ unresolvedReferences' = unresolvedReferences \o ImportRefs(n)
  /\ UNCHANGED <<nodes, edges, scopes, nodeStack>>
  /\ Enter(n, "visit", FALSE, "")

VisitCall(n) ==
  /\ Visit(n, "extractCall")
  /\ unresolvedReferences' = unresolvedReferences \o CallRefs(n)
  /\ UNCHANGED <<nodes, edges, scopes, nodeStack>>
  /\ Enter(n, "visit", FALSE, "")

\* No handler: visitNode visits the named children.
VisitOther(n) ==
  /\ Visit(n, "none")
  /\ UNCHANGED <<nodes, edges, scopes, nodeStack, unresolvedReferences>>
  /\ Enter(n, "visit", FALSE, "")

\* visitForCalls, inside a function or method body: a call is recorded, every
\* other node is only descended into.
VisitForCalls(n) ==
  /\ Visiting("calls")
  /\ IsPlaced(n, NextShapes)
  /\ Reads(n)
  /\ cstCount' = cstCount + 1
  /\ unresolvedReferences' =
       unresolvedReferences \o (IF n.type \in E.callTypes THEN CallRefs(n) ELSE <<>>)
  /\ UNCHANGED <<nodes, edges, scopes, nodeStack>>
  /\ Enter(n, "calls", FALSE, "")
  /\ UNCHANGED <<transport, file, language, source, pc, errors, run, first, result>>

\* The innermost open node has no more children: its handler pops the scope
\* it pushed and returns.
Leave ==
  /\ pc = "walk"
  /\ Len(frames) > 1
  /\ Reads(Event("/"))
  /\ frames' = Front(frames)
  /\ nodeStack' = IF Last(frames).pop THEN Front(nodeStack) ELSE nodeStack
  /\ cur' = [cur EXCEPT !.off = Last(frames).end]
  /\ UNCHANGED <<transport, file, language, source, pc, nodes, edges, unresolvedReferences, errors,
                 cstCount, run, first, result, scopes>>

\* ------------------------------------------------ TreeSitterExtractor.extract
TreeSitter == pc = "start" /\ language # "liquid"

\* isLanguageSupported is false: a fresh result with one error.
ExtractUnsupported ==
  /\ TreeSitter
  /\ ~isLanguageSupported(language)
  /\ result' = <<FreshResult(<<ExtractionError("Unsupported language: " \o language)>>)>>
  /\ pc' = "done"
  /\ UNCHANGED <<transport, file, language, source, input, pos, run, first>>
  /\ UNCHANGED walk

\* getParser returned null: a fresh result with one error.
ExtractNoParser ==
  /\ TreeSitter
  /\ isLanguageSupported(language)
  /\ Reads(Event("!noparser"))
  /\ result' =
       <<FreshResult(<<ExtractionError("Failed to get parser for language: " \o language)>>)>>
  /\ pc' = "done"
  /\ UNCHANGED <<transport, file, language, source, run, first>>
  /\ UNCHANGED walk

\* A catch block that throws the exception again.
CatchRethrows(msg) ==
  /\ errors' = errors
  /\ frames' = <<>>
  /\ result' = result
  /\ pc' = "escaped"

\* The catch block of extract: the error is pushed on this.errors and the
\* instance's lists are returned as they are.
Catch(msg) ==
  /\ errors' = Append(errors, ExtractionError("Parse error: " \o msg))
  /\ frames' = <<>>
  /\ result' = <<SharedResult>>
  /\ pc' = "done"

\* parser.parse throws.
ExtractParseThrows ==
  /\ TreeSitter
  /\ isLanguageSupported(language)
  /\ Reads(Event("!parse"))
  /\ Catch("Invalid argument")
  /\ UNCHANGED <<transport, file, language, source, run, first>>
  /\ UNCHANGED <<nodes, edges, unresolvedReferences, nodeStack, cur, cstCount, scopes>>

\* parser.parse returns the tree and visitNode is called on its root.
ExtractParse(step) ==
  /\ TreeSitter
  /\ isLanguageSupported(language)
  /\ Reads([Event("program") EXCEPT !.endRow = step * Width(MaxCstNodes + 1),
                                    !.endCol = Width(MaxCstNodes + 1)])
  /\ frames' = <<[mode |-> "visit", pop |-> FALSE, name |-> "",
                  end |-> Width(MaxCstNodes + 1), type |-> "program"]>>
  /\ cur' = [off |-> 0, step |-> step]
  /\ pc' = "walk"
  /\ UNCHANGED <<transport, file, language, source, run, first, result>>
  /\ UNCHANGED <<nodes, edges, unresolvedReferences, errors, nodeStack, cstCount, scopes>>

\* An exception is raised somewhere inside visitNode (the call stack is
\* exhausted, or the native node API fails).
WalkThrows ==
  /\ pc = "walk"
  /\ Reads(Event("!throw"))
  /\ Catch("Maximum call stack size exceeded")
  /\ UNCHANGED <<transport, file, language, source, run, first>>
  /\ UNCHANGED <<nodes, edges, unresolvedReferences, nodeStack, cur, cstCount, scopes>>

\* visitNode(root) returned: extract returns the instance's lists.
WalkDone ==
  /\ pc = "walk"
  /\ Len(frames) = 1
  /\ Reads(Event("/"))
  /\ frames' = <<>>
  /\ result' = <<SharedResult>>
  /\ pc' = "done"
  /\ UNCHANGED <<transport, file, language, source, run, first>>
  /\ UNCHANGED <<nodes, edges, unresolvedReferences, errors, nodeStack, cur, cstCount, scopes>>

\* ------------------------------------------------------- Liquid templates
\* A token and the text it stands for (nl: a line break in place of the
\* blank after "{%", or in front of the schema body):
\*   text    x
\*   nl      \n
\*   tag     {% render 'p' %}   {% include 'p' %}   {% section 'p' %}
\*   schema  {% schema %}BODY{% endschema %}
\*           BODY is {"name":"S"} (named), {} (plain) or { (bad)
\*   assign  {% assign v = 1 %}
Token(t, tag, name, json, nl) == [t |-> t, tag |-> tag, name |-> name, json |-> json, nl |-> nl]

LiquidTokens ==
  { Token("text", "", "", "", 0),
    Token("nl", "", "", "", 0),
    Token("tag", "render", "p", "", 0),
    Token("tag", "render", "p", "", 1),
    Token("tag", "include", "p", "", 0),
    Token("tag", "section", "p", "", 0),
    Token("schema", "", "", "named", 0),
    Token("schema", "", "", "plain", 1),
    Token("schema", "", "", "bad", 0),
    Token("assign", "", "v", "", 0) }

LiquidSources == UNION { [1..k -> LiquidTokens] : k \in 0..MaxLiquidTokens }

JsonLen(json) == CASE json = "named" -> 12 [] json = "plain" -> 2 [] OTHER -> 1

\* Length of match[0] of the token's regular expression.
MatchLen(tok) ==
  CASE tok.t = "tag" -> Len(tok.tag) + Len(tok.name) + 6
    [] tok.t = "schema" -> 12 + tok.nl + JsonLen(tok.json) + 15
    [] tok.t = "assign" -> Len(tok.name) + 12
    [] OTHER -> 0

\* Length of the token's text.
TokenLen(tok) ==
  CASE tok.t = "tag" -> MatchLen(tok) + 3
    [] tok.t = "schema" -> MatchLen(tok)
    [] tok.t = "assign" -> MatchLen(tok) + 5
    [] OTHER -> 1

\* Offsets, inside the token's text, of its line breaks.
TokenNewlines(tok) ==
  CASE tok.t = "nl" -> {0}
    [] tok.t = "tag" /\ tok.nl = 1 -> {2}
    [] tok.t = "schema" /\ tok.nl = 1 -> {12}
    [] OTHER -> {}

\* match.index of the token at place i.
Offset(i) == SumSeq([j \in 1..(i - 1) |-> TokenLen(source[j])])
SourceLen == Offset(Len(source) + 1)
Newlines ==
  UNION { { Offset(i) + r : r \in TokenNewlines(source[i]) } : i \in 1..Len(source) }

\* source.split('\n'), as the lengths of the lines.
NumLines == Cardinality(Newlines) + 1
NthNewline(k) == CHOOSE p \in Newlines : Cardinality({ q \in Newlines : q < p }) = k - 1
LineLength(k) ==
  (IF k = NumLines THEN SourceLen ELSE NthNewline(k))
    - (IF k = 1 THEN 0 ELSE NthNewline(k - 1) + 1)

\* getLineNumber: line breaks before the index, plus one.
getLineNumber(index) == Cardinality({ p \in Newlines : p < index }) + 1

\* getLineStart: the lengths of the lines before lineNumber, each plus one.
getLineStart(lineNumber) ==
  SumSeq([k \in 1..(IF lineNumber - 1 < NumLines THEN lineNumber - 1 ELSE NumLines) |->
            LineLength(k) + 1])

\* The four regular expressions, by the pass that runs them.
IsSnippet(tok) == tok.t = "tag" /\ tok.tag \in {"render", "include"}
IsSection(tok) == tok.t = "tag" /\ tok.tag = "section"
IsSchema(tok) == tok.t = "schema"
IsAssign(tok) == tok.t = "assign"

Test(pass, tok) ==
  CASE pass = "snippet" -> IsSnippet(tok)
    [] pass = "section" -> IsSection(tok)
    [] pass = "schema" -> IsSchema(tok)
    [] pass = "assign" -> IsAssign(tok)

\* The places of the tokens the pass matches, last match first.
MatchesBackwards(pass) ==
  LET m == SelectSeq([i \in 1..Len(source) |-> i], LAMBDA i : Test(pass, source[i]))
  IN [k \in 1..Len(m) |-> m[Len(m) + 1 - k]]

\* The places of the tokens the pass's regular expression matches, in source
\* order.
Matches(pass) ==
  SelectSeq([i \in 1..Len(source) |-> i], LAMBDA i : Test(pass, source[i]))

LiquidNode(id, kind, name, qualifiedName, startLine, endLine, startColumn, endColumn) ==
  [ id |-> id, kind |-> kind, name |-> name, qualifiedName |-> qualifiedName,
    filePath |-> PathStr(file), language |-> "liquid",
    startLine |-> startLine, endLine |-> endLine,
    startColumn |-> startColumn, endColumn |-> endColumn, updatedAt |-> run ]

\* createFileNode
FileNode ==
  LiquidNode(generateNodeId(PathStr(file), "file", PathStr(file), 1), "file",
             Basename(file), PathStr(file), 1, NumLines, 0, LineLength(NumLines))

\* The component node of the render, include or section tag at place i.
ComponentNode(i) ==
  LET tok == source[i]
      line == getLineNumber(Offset(i))
      key == tok.tag \o ":" \o tok.name
      col == Offset(i) - getLineStart(line)
  IN LiquidNode(generateNodeId(PathStr(file), "component", key, line), "component",
                tok.name, PathStr(file) \o "::" \o key, line, line, col, col + MatchLen(tok))

\* The reference that names the snippets directory for every tag.
ComponentRefToSnippet(i, fileNodeId) ==
  LET tok == source[i]
      line == getLineNumber(Offset(i))
  IN [ fromNodeId |-> fileNodeId, referenceName |-> "snippets/" \o tok.name \o ".liquid",
       referenceKind |-> "references", line |-> line,
       column |-> Offset(i) - getLineStart(line) ]

ComponentRef(i, fileNodeId) ==
  LET tok == source[i]
      line == getLineNumber(Offset(i))
      dir == IF tok.tag = "section" THEN "sections/" ELSE "snippets/"
  IN [ fromNodeId |-> fileNodeId, referenceName |-> dir \o tok.name \o ".liquid",
       referenceKind |-> "references", line |-> line,
       column |-> Offset(i) - getLineStart(line) ]

\* JSON.parse(schemaContent).name, or the default when it is absent or the
\* body is not JSON.
SchemaName(tok) == IF tok.json = "named" THEN "S" ELSE "schema"

SchemaNode(i) ==
  LET tok == source[i]
      startLine == getLineNumber(Offset(i))
      endLine == getLineNumber(Offset(i) + MatchLen(tok))
      key == "schema:" \o SchemaName(tok)
  IN LiquidNode(generateNodeId(PathStr(file), "constant", key, startLine), "constant",
                SchemaName(tok), PathStr(file) \o "::" \o key, startLine, endLine,
                Offset(i) - getLineStart(startLine), 0)

VariableNode(i) ==
  LET tok == source[i]
      line == getLineNumber(Offset(i))
      col == Offset(i) - getLineStart(line)
  IN LiquidNode(generateNodeId(PathStr(file), "variable", tok.name, line), "variable",
                tok.name, PathStr(file) \o "::" \o tok.name, line, line, col,
                col + MatchLen(tok))

\* The containment edge drawn from the emitted node to the file node.
ContainsEdgeToFile(from, to) == [source |-> to, target |-> from, kind |-> "contains"]

ContainsEdge(from, to) == [source |-> from, target |-> to, kind |-> "contains"]

Liquid(at) == pc = at /\ language = "liquid"

LiquidFrame == <<transport, file, language, source, run, first, errors, nodeStack, frames, cur, cstCount>>

\* The node a pass builds for the match at place i.
MakeNode(pass, i) ==
  CASE pass \in {"snippet", "section"} -> ComponentNode(i)
    [] pass = "schema" -> SchemaNode(i)
    [] pass = "assign" -> VariableNode(i)

\* One pass of a regular expression over the source: a node and a contains
\* edge per match, and a reference when the pass records one.
LiquidPass(pass) ==
  LET m == Matches(pass)
      fileNodeId == nodes[1].id
  IN /\ nodes' = nodes \o [k \in 1..Len(m) |-> MakeNode(pass, m[k])]
     /\ scopes' = scopes \o [k \in 1..Len(m) |-> <<>>]
     /\ edges' = edges \o [k \in 1..Len(m) |-> ContainsEdge(fileNodeId, MakeNode(pass, m[k]).id)]
     /\ unresolvedReferences' =
          IF pass \in {"snippet", "section"}
          THEN unresolvedReferences \o [k \in 1..Len(m) |-> ComponentRef(m[k], fileNodeId)]
          ELSE unresolvedReferences

createFileNode ==
  /\ Liquid("start")
  /\ Reads(Event("template"))
  /\ nodes' = Append(nodes, FileNode)
  /\ scopes' = Append(scopes, <<>>)
  /\ pc' = "liquid1"
  /\ UNCHANGED <<edges, unresolvedReferences, result>>
  /\ UNCHANGED LiquidFrame

extractSnippetReferences ==
  /\ Liquid("liquid1")
  /\ LiquidPass("snippet")
  /\ pc' = "liquid2"
  /\ UNCHANGED <<result, input, pos>>
  /\ UNCHANGED LiquidFrame

extractSectionReferences ==
  /\ Liquid("liquid2")
  /\ LiquidPass("section")
  /\ pc' = "liquid3"
  /\ UNCHANGED <<result, input, pos>>
  /\ UNCHANGED LiquidFrame

extractSchema ==
  /\ Liquid("liquid3")
  /\ LiquidPass("schema")
  /\ pc' = "liquid4"
  /\ UNCHANGED <<result, input, pos>>
  /\ UNCHANGED LiquidFrame

\* The last pass; LiquidExtractor.extract then returns the instance's lists.
extractAssignments ==
  /\ Liquid("liquid4")
  /\ LiquidPass("assign")
  /\ result' = <<SharedResult>>
  /\ pc' = "done"
  /\ UNCHANGED <<input, pos>>
  /\ UNCHANGED LiquidFrame

\* The catch block of LiquidExtractor.extract.
LiquidCatch(msg) ==
  /\ errors' = Append(errors, ExtractionError("Liquid extraction error: " \o msg))
  /\ result' = <<SharedResult>>
  /\ pc' = "done"

\* createFileNode throws (the source handed in by an untyped caller is not a
\* string).
LiquidThrows ==
  /\ language = "liquid"
  /\ pc = "start"
  /\ Reads(Event("!liquid"))
  /\ LiquidCatch("this.source.split is not a function")
  /\ UNCHANGED <<transport, file, language, source, run, first>>
  /\ UNCHANGED <<nodes, edges, unresolvedReferences, nodeStack, frames, cur, cstCount, scopes>>

\* ------------------------------------------------------ the specification
\* extractFromSource(filePath, source) is about to be called, on a fresh
\* extractor for the language detected from the path.
Init ==
  /\ file \in Files
  /\ language = detectLanguage(file)
  /\ source \in (IF language = "liquid" THEN LiquidSources ELSE {<<>>})
  /\ pc = "start"
  /\ nodes = <<>>
  /\ edges = <<>>
  /\ unresolvedReferences = <<>>
  /\ errors = <<>>
  /\ nodeStack = <<>>
  /\ frames = <<>>
  /\ cur = [off |-> 0, step |-> 0]
  /\ cstCount = 0
  /\ input = <<>>
  /\ pos = 0
  /\ run = 1
  /\ first = <<>>
  /\ result = <<>>
  /\ scopes = <<>>
  /\ NoTransport

\* ----------------------------------------- getVisibility on its own inputs
\* The texts of the modifier child a declaration is drawn with.
ModifierTexts ==
  {"", "public", "private", "protected", "internal", "fileprivate", "pub", "pub(crate)",
   "static"}

\* new TreeSitterExtractor(filePath, source, language): a declaration of any
\* policy language, about to be handed to the policy's getVisibility.
InitVisibility ==
  /\ language \in PolicyLanguages
  /\ file = [dir |-> <<>>, base |-> "d", ext |-> language]
  /\ source = <<>>
  /\ pc = "declaration"
  /\ nodes = <<>>
  /\ edges = <<>>
  /\ unresolvedReferences = <<>>
  /\ errors = <<>>
  /\ nodeStack = <<>>
  /\ frames = <<>>
  /\ cur = [off |-> 0, step |-> 0]
  /\ cstCount = 0
  /\ input \in { <<[Event("declaration") EXCEPT !.modifiers = text]>> : text \in ModifierTexts }
  /\ pos = 0
  /\ run = 1
  /\ first = <<>>
  /\ result = <<>>
  /\ scopes = <<>>
  /\ NoTransport

\* const visibility = this.extractor.getVisibility?.(node)
ReadVisibility ==
  /\ pc = "declaration"
  /\ pos' = 1
  /\ result' = <<getVisibility(language, input[1])>>
  /\ pc' = "visibility"
  /\ UNCHANGED <<transport, file, language, source, nodes, edges, unresolvedReferences, errors,
                 nodeStack, frames, cur, cstCount, input, run, first, scopes>>

SpecVisibility == InitVisibility /\ [][ReadVisibility]_vars

\* extractFromSource is called again on the same path and bytes: a new
\* extractor, which reads the same tree.
ExtractAgain ==
  /\ pc = "done"
  /\ run = 1
  /\ first' = <<Result, result[1]>>
  /\ run' = 2
  /\ pos' = 0
  /\ pc' = "start"
  /\ nodes' = <<>>
  /\ edges' = <<>>
  /\ unresolvedReferences' = <<>>
  /\ errors' = <<>>
  /\ nodeStack' = <<>>
  /\ frames' = <<>>
  /\ cur' = [off |-> 0, step |-> 0]
  /\ cstCount' = 0
  /\ result' = <<>>
  /\ scopes' = <<>>
  /\ UNCHANGED <<transport, file, language, source, input>>

\* extract() is called again on the instance that has returned: the instance's
\* lists and its scope stack are what the first call left, the parser reads
\* the same tree.
ExtractOnSameInstance ==
  /\ pc = "done"
  /\ run = 1
  /\ first' = <<Result, result[1]>>
  /\ run' = 3
  /\ pos' = 0
  /\ pc' = "start"
  /\ frames' = <<>>
  /\ cur' = [off |-> 0, step |-> 0]
  /\ cstCount' = 0
  /\ result' = <<>>
  /\ UNCHANGED <<transport, file, language, source, input>>
  /\ UNCHANGED <<nodes, edges, unresolvedReferences, errors, nodeStack, scopes>>

\* The node the parser yields next: any placed shape in the first extraction,
\* the recorded one in the second.
Children ==
  IF pc = "walk" /\ frames # <<>>
  THEN (IF run = 1 THEN NextNodes
        ELSE IF pos < Len(input) THEN {input[pos + 1]} ELSE {})
  ELSE {}

Next ==
  \/ ExtractUnsupported
  \/ ExtractNoParser
  \/ ExtractParseThrows
  \/ \E step \in {0, 1} : ExtractParse(step)
  \/ \E n \in Children : VisitFunction(n)
  \/ \E n \in Children : VisitClass(n)
  \/ \E n \in Children : VisitMethod(n)
  \/ \E n \in Children : VisitInterface(n)
  \/ \E n \in Children : VisitStruct(n)
  \/ \E n \in Children : VisitEnum(n)
  \/ language = "kotlin" /\ \E n \in Children : VisitKotlinClass(n)
  \/ language = "kotlin" /\ \E n \in Children : VisitKotlinEnum(n)
  \/ language = "kotlin" /\ \E n \in Children : VisitKotlinObject(n)
  \/ language = "kotlin" /\ \E n \in Children : VisitKotlinCompanionObject(n)
  \/ language = "kotlin" /\ \E n \in Children : VisitKotlinEnumEntry(n)
  \/ language = "kotlin" /\ \E n \in Children : VisitKotlinProperty(n)
  \/ language = "swift" /\ \E n \in Children : VisitSwiftClassDeclaration(n)
  \/ language = "swift" /\ \E n \in Children : VisitSwiftProtocol(n)
  \/ language = "swift" /\ \E n \in Children : VisitSwiftEnumCase(n)
  \/ language = "swift" /\ \E n \in Children : VisitSwiftProtocolFunction(n)
  \/ language = "swift" /\ \E n \in Children : VisitSwiftProperty(n)
  \/ language = "swift" /\ \E n \in Children : VisitSwiftSubscript(n)
  \/ language = "swift" /\ \E n \in Children : VisitSwiftInit(n)
  \/ \E n \in Children : VisitImport(n)
  \/ \E n \in Children : VisitCall(n)
  \/ \E n \in Children : VisitOther(n)
  \/ \E n \in Children : VisitForCalls(n)
  \/ Leave
  \/ WalkThrows
  \/ WalkDone
  \/ createFileNode
  \/ extractSnippetReferences
  \/ extractSectionReferences
  \/ extractSchema
  \/ extractAssignments
  \/ LiquidThrows

Spec == Init /\ [][Next]_vars

\* The same, with every input extracted a second time.
NextAgain == Next \/ ExtractAgain

SpecAgain == Init /\ [][NextAgain]_vars

\* The same, with extract() called a second time on every instance.
NextSameInstance == Next \/ ExtractOnSameInstance

SpecSameInstance == Init /\ [][NextSameInstance]_vars

\* ------------------------------ HttpTransport (src/src/mcp/http-transport.ts)
\* One HttpTransport serves MaxRequests connections.  handleRequest is an
\* async function: it runs to its first await (readBody), resumes when the
\* body has been read and runs to its second await (the message handler), and
\* resumes when the handler has returned or thrown.  The calls made for other
\* connections, the handler's send() and stop() run in between.

\* this.config.endpoint (the default)
endpoint == "/mcp"

\* JSON values of the members the transport reads.
Str(s) == [t |-> "string", s |-> s]
Num(n) == [t |-> "number", n |-> n]

\* Ids of JSON-RPC requests.
Ids == {1, 2}

\* JSON.parse results: an object with or without jsonrpc, method and id
\* (<<>>: the member is absent), or a value that is no object.
JsonValues ==
  [t : {"object"},
   jsonrpc : {<<>>, <<Str("2.0")>>, <<Str("1.0")>>},
   method : {<<>>, <<Str("tools/call")>>, <<Num(7)>>},
   id : {<<>>} \cup { <<id>> : id \in Ids }]
  \cup {[t |-> "array"], [t |-> "null"], Num(7)}

\* What the request stream delivers: an 'error' event, or the text of the
\* body, which is JSON (json = <<value>>) or not (json = <<>>).
Bodies ==
  {[error |-> TRUE, json |-> <<>>], [error |-> FALSE, json |-> <<>>]}
  \cup { [error |-> FALSE, json |-> <<v>>] : v \in JsonValues }

\* req.url as path and query; "//" is a request target that new URL() rejects.
Urls ==
  {[path |-> "/mcp", query |-> ""], [path |-> "/mcp", query |-> "?session=1"],
   [path |-> "/other", query |-> ""], [path |-> "//", query |-> ""]}

\* The content-type header as its parts, <<>> when absent or empty.
ContentTypes == {<<>>, <<"text/plain">>, <<"application/json", "charset=utf-8">>}

Requests == [method : {"POST", "GET", "OPTIONS"}, url : Urls, contentType : ContentTypes]

\* new URL(req.url || '/', `http://${req.headers.host}`).pathname, <<>> when
\* the constructor throws: a target that starts with "//" has an empty host.
pathname(url) == IF url.path = "//" THEN <<>> ELSE <<url.path>>

\* contentType.includes('application/json')
includes(contentType, part) == \E i \in 1..Len(contentType) : contentType[i] = part

\* obj[member], undefined (<<>>) for what has no such member
Member(msg, member) == IF msg.t = "object" THEN msg[member] ELSE <<>>

\* isValidMessage(msg)
isValidMessage(msg) ==
  /\ msg.t \in {"object", "array"}                \* typeof 'object', not null
  /\ Member(msg, "jsonrpc") # <<>>
  /\ Member(msg, "jsonrpc")[1] = Str("2.0")
  /\ Member(msg, "method") # <<>>
  /\ Member(msg, "method")[1].t = "string"

\* 'id' in message
HasId(msg) == Member(msg, "id") # <<>>

\* The body of a JSON-RPC error response the transport itself makes, and of
\* the response made for the request of connection c (for = 0: for none).
ErrorResponse(id, code, c) == [id |-> id, error |-> <<code>>, for |-> c]
ResultResponse(id, c) == [id |-> id, error |-> <<>>, for |-> c]

\* sendHttpResponse(res, statusCode, body): writeHead and end.
sendHttpResponse(w, res, statusCode, body) ==
  [w EXCEPT ![res] = Append(@, [status |-> statusCode, body |-> <<body>>])]

\* res.writeHead(statusCode); res.end()
endWithout(w, res, statusCode) ==
  [w EXCEPT ![res] = Append(@, [status |-> statusCode, body |-> <<>>])]

\* this.pendingResponses.set(id, {res, timestamp})
MapSet(map, id, res) ==
  [i \in DOMAIN map \cup {id} |-> IF i = id THEN res ELSE map[i]]

\* this.pendingResponses.delete(id)
MapDelete(map, id) == [i \in DOMAIN map \ {id} |-> map[i]]

\* send(response)
send(response) ==
  IF response.id = <<>>
  THEN UNCHANGED <<written, pendingResponses>>
  ELSE IF response.id[1] \in DOMAIN pendingResponses
       THEN /\ written' = sendHttpResponse(written, pendingResponses[response.id[1]],
                                           200, response)
            /\ pendingResponses' = MapDelete(pendingResponses, response.id[1])
       ELSE UNCHANGED <<written, pendingResponses>>

\* start(handler)
start ==
  /\ server = None
  /\ messageHandler' = "handler"
  /\ server' = "listening"
  /\ UNCHANGED <<pendingResponses, calls, written>>
  /\ UNCHANGED extraction

\* stop()
stop ==
  /\ server' = None
  /\ pendingResponses' = EmptyMap
  /\ UNCHANGED <<messageHandler, calls, written>>
  /\ UNCHANGED extraction

\* The call leaves handleRequest at pc, having written w.
Goes(c, pcNext, req, body, w) ==
  /\ calls' = [calls EXCEPT ![c] = [pc |-> pcNext, req |-> req, body |-> body]]
  /\ written' = w

\* handleRequest(req, res) up to `await this.readBody(req)`.
handleRequest(c, req) ==
  /\ server = "listening"
  /\ calls[c].pc = "idle"
  /\ IF req.method = "OPTIONS"
     THEN Goes(c, "returned", <<req>>, <<>>, endWithout(written, c, 204))
     ELSE IF pathname(req.url) = <<>>
     THEN Goes(c, "threw", <<req>>, <<>>, written)
     ELSE IF req.method # "POST" \/ pathname(req.url)[1] # endpoint
     THEN Goes(c, "returned", <<req>>, <<>>,
               sendHttpResponse(written, c, 404, ErrorResponse(<<>>, "InvalidRequest", 0)))
     ELSE IF req.contentType = <<>> \/ ~includes(req.contentType, "application/json")
     THEN Goes(c, "returned", <<req>>, <<>>,
               sendHttpResponse(written, c, 400, ErrorResponse(<<>>, "ParseError", 0)))
     ELSE Goes(c, "readBody", <<req>>, <<>>, written)
  /\ UNCHANGED <<server, messageHandler, pendingResponses>>
  /\ UNCHANGED extraction

\* handleRequest from the end of readBody to `await this.messageHandler(message)`.
readBody(c, body) ==
  /\ calls[c].pc = "readBody"
  /\ IF body.error
     THEN /\ Goes(c, "returned", calls[c].req, <<body>>,
                  sendHttpResponse(written, c, 400, ErrorResponse(<<>>, "ParseError", 0)))
          /\ UNCHANGED pendingResponses
     ELSE IF body.json = <<>>
     THEN /\ Goes(c, "returned", calls[c].req, <<body>>,
                  sendHttpResponse(written, c, 400, ErrorResponse(<<>>, "ParseError", 0)))
          /\ UNCHANGED pendingResponses
     ELSE IF ~isValidMessage(body.json[1])
     THEN /\ Goes(c, "returned", calls[c].req, <<body>>,
                  sendHttpResponse(written, c, 400, ErrorResponse(<<>>, "InvalidRequest", 0)))
          /\ UNCHANGED pendingResponses
     ELSE LET message == body.json[1]
              pending == IF HasId(message)
                         THEN MapSet(pendingResponses, message.id[1], c)
                         ELSE pendingResponses
          IN  /\ pendingResponses' = pending
              /\ IF messageHandler # None
                 THEN Goes(c, "handler", calls[c].req, <<body>>, written)
                 ELSE Goes(c, "returned", calls[c].req, <<body>>,
                           sendHttpResponse(written, c, 500,
                                            ErrorResponse(message.id, "InternalError", c)))
  /\ UNCHANGED <<server, messageHandler>>
  /\ UNCHANGED extraction

\* The message a call handed to the handler.
MessageOf(c) == calls[c].body[1].json[1]

\* The handler answers the request it was called with: sendResult(id, result)
\* or sendError(id, ...), both of which call send().
HandlerSends(c) ==
  /\ calls[c].pc = "handler"
  /\ HasId(MessageOf(c))
  /\ send(ResultResponse(MessageOf(c).id, c))
  /\ calls' = [calls EXCEPT ![c].pc = "sent"]
  /\ UNCHANGED <<server, messageHandler>>
  /\ UNCHANGED extraction

\* The handler returns: after its answer to a request, or for a notification,
\* which handleRequest then answers with 204.
HandlerReturns(c) ==
  /\ \/ calls[c].pc = "sent"
     \/ calls[c].pc = "handler" /\ ~HasId(MessageOf(c))
  /\ written' = IF HasId(MessageOf(c)) THEN written ELSE endWithout(written, c, 204)
  /\ calls' = [calls EXCEPT ![c].pc = "returned"]
  /\ UNCHANGED <<server, messageHandler, pendingResponses>>
  /\ UNCHANGED extraction

\* The handler throws, before or after its answer: the catch block of
\* handleRequest.
HandlerThrows(c) ==
  /\ calls[c].pc \in {"handler", "sent"}
  /\ IF HasId(MessageOf(c))
     THEN send(ErrorResponse(MessageOf(c).id, "InternalError", c))
     ELSE /\ written' = endWithout(written, c, 500)
          /\ UNCHANGED pendingResponses
  /\ calls' = [calls EXCEPT ![c].pc = "returned"]
  /\ UNCHANGED <<server, messageHandler>>
  /\ UNCHANGED extraction

\* new HttpTransport(config): no extraction is going on.
InitHttp ==
  /\ file = [dir |-> <<>>, base |-> "d", ext |-> "ts"]
  /\ language = "typescript"
  /\ source = <<>>
  /\ pc = "transport"
  /\ nodes = <<>>
  /\ edges = <<>>
  /\ unresolvedReferences = <<>>
  /\ errors = <<>>
  /\ nodeStack = <<>>
  /\ frames = <<>>
  /\ cur = [off |-> 0, step |-> 0]
  /\ cstCount = 0
  /\ input = <<>>
  /\ pos = 0
  /\ run = 1
  /\ first = <<>>
  /\ result = <<>>
  /\ scopes = <<>>
  /\ NoTransport

NextHttp ==
  \/ start
  \/ stop
  \/ \E c \in Connections, req \in Requests : handleRequest(c, req)
  \/ \E c \in Connections, body \in Bodies : readBody(c, body)
  \/ \E c \in Connections : HandlerSends(c)
  \/ \E c \in Connections : HandlerReturns(c)
  \/ \E c \in Connections : HandlerThrows(c)

SpecHttp == InitHttp /\ [][NextHttp]_vars

\* --------------------------------------------------------------- properties
Emitted == 1..Len(nodes)
NodeIds == { nodes[i].id : i \in Emitted }

\* The failures the parser, the walk or the Liquid passes raised in this run.
Failures == {"!noparser", "!parse", "!throw", "!liquid"}
Thrown == {"!parse", "!throw", "!liquid"}
Read(types) == \E i \in 1..Len(input) : input[i].type \in types

\* The targets of the contains edges that leave a node of `from`.
Targets(es, from) ==
  { es[i].target : i \in { j \in 1..Len(es) : es[j].kind = "contains" /\ es[j].source \in from } }

RECURSIVE Descendants(_, _, _)
Descendants(es, from, k) ==
  IF k = 0 THEN {}
  ELSE LET t == Targets(es, from) IN t \cup Descendants(es, t, k - 1)

Forest(es) ==
  /\ \A i, j \in 1..Len(es) :
       (es[i].kind = "contains" /\ es[j].kind = "contains" /\ es[i].target = es[j].target)
         => i = j
  /\ \A i \in 1..Len(es) : es[i].source \notin Descendants(es, {es[i].source}, Len(es))

\* C1 (as stated): in the result of an extraction the contains edges form a
\* forest over node ids: no id is the target of two contains edges and no
\* contains path leads from an id back to itself (no self loop in particular).
ContainsEdgesFormForest == Returned => Forest(Result.edges)

\* C2: in every state of an extraction, the source and the target of every
\* edge and the fromNodeId of every unresolved reference is the id of a node
\* of the nodes list.
ReferentialIntegrity ==
  /\ \A i \in 1..Len(edges) : edges[i].source \in NodeIds /\ edges[i].target \in NodeIds
  /\ \A i \in 1..Len(unresolvedReferences) : unresolvedReferences[i].fromNodeId \in NodeIds

\* C2, its case: the walk is under way and has recorded an edge and a reference.
ReferentialIntegrityWitness ==
  pc = "walk" /\ edges # <<>> /\ unresolvedReferences # <<>>

\* C3 (as stated): no emitted node is named "<anonymous>".
NoAnonymousNode == \A i \in Emitted : nodes[i].name # "<anonymous>"

\* C4 (as stated): when parsing or walking failed with an exception, the
\* returned result has an error of severity error and its nodes, edges and
\* unresolvedReferences are empty.
FailureDiscardsPartialResults ==
  (Returned /\ Read(Thrown)) =>
    /\ \E i \in 1..Len(Result.errors) : Result.errors[i].severity = "error"
    /\ Result.nodes = <<>>
    /\ Result.edges = <<>>
    /\ Result.unresolvedReferences = <<>>

UnsupportedIsOneError ==
  (Returned /\ (~isLanguageSupported(language) \/ Read({"!noparser"}))) =>
    /\ Result.nodes = <<>>
    /\ Result.edges = <<>>
    /\ Result.unresolvedReferences = <<>>
    /\ Len(Result.errors) = 1
    /\ Result.errors[1].severity = "error"
    /\ cstCount = 0
    /\ ~Read({"program"})

\* C6, its case: a file of unknown language was extracted.
UnsupportedIsOneErrorWitness ==
  Returned /\ language = "unknown" /\ Len(Result.errors) = 1

\* A result without the fields two extractions may differ in.
Timeless(r) ==
  [ nodes |-> [i \in 1..Len(r.nodes) |->
                 [f \in (DOMAIN r.nodes[i]) \ {"updatedAt"} |-> r.nodes[i][f]]],
    edges |-> r.edges,
    unresolvedReferences |-> r.unresolvedReferences ]

IdHashesOwnFields ==
  \A i \in Emitted :
    nodes[i].id = generateNodeId(nodes[i].filePath, nodes[i].kind, nodes[i].name, nodes[i].startLine)

\* The strings hashed in the place of the name.
IdKeys(n) ==
  IF n.language # "liquid" \/ n.kind = "variable" THEN {n.name}
  ELSE IF n.kind = "file" THEN {n.filePath}
  ELSE IF n.kind = "component"
       THEN { tag \o ":" \o n.name : tag \in {"render", "include", "section"} }
       ELSE {"schema:" \o n.name}

\* C8 (amended): the id of a node of the tree-sitter walker, and of a Liquid
\* variable, is the hash of its own filePath, kind, name and startLine; a
\* Liquid file node hashes its path in the place of the name, a component
\* "<tag>:<name>" and a schema constant "schema:<name>".
IdHashesKey ==
  \A i \in Emitted :
    \E key \in IdKeys(nodes[i]) :
      nodes[i].id = generateNodeId(nodes[i].filePath, nodes[i].kind, key, nodes[i].startLine)

\* C8, its case: a render and an include of the same snippet on one line,
\* which agree on the four fields and differ in id.
IdHashesKeyWitness ==
  /\ Returned
  /\ \E i, j \in Emitted :
       /\ nodes[i].kind = "component" /\ nodes[j].kind = "component"
       /\ nodes[i].name = nodes[j].name /\ nodes[i].startLine = nodes[j].startLine
       /\ nodes[i].id # nodes[j].id

\* C9 (as stated): every node's qualifiedName is the file path, the names of
\* the scopes open at its emission from the outermost in, and its own name,
\* joined by "::".
QualifiedNameIsScopePath ==
  \A i \in Emitted :
    nodes[i].qualifiedName = Join(<<nodes[i].filePath>> \o scopes[i] \o <<nodes[i].name>>, "::")

QualifiedNames(i) ==
  LET n == nodes[i] IN
  IF n.language # "liquid"
  THEN {Join(<<n.filePath>> \o scopes[i] \o <<n.name>>, "::")}
  ELSE IF n.kind = "file" THEN {n.filePath}
  ELSE { n.filePath \o "::" \o key : key \in IdKeys(n) }

\* C9 (amended): the qualifiedName of a node of the tree-sitter walker is the
\* file path, the names of the open scopes and its own name joined by "::";
\* that of a Liquid file node is the file path alone, of a component
\* "<path>::<tag>:<name>", of a schema constant "<path>::schema:<name>" and of
\* a variable "<path>::<name>".
QualifiedNameByExtractor ==
  \A i \in Emitted : nodes[i].qualifiedName \in QualifiedNames(i)

\* C9, its case: a node was emitted inside two open scopes.
QualifiedNameByExtractorWitness ==
  Returned /\ \E i \in Emitted : Len(scopes[i]) = 2

\* C10 (as stated): every node has startLine >= 1, startLine <= endLine,
\* columns >= 0 and, on one line, startColumn <= endColumn.
WellOrderedLocation ==
  \A i \in Emitted :
    /\ nodes[i].startLine >= 1
    /\ nodes[i].startLine <= nodes[i].endLine
    /\ nodes[i].startColumn >= 0
    /\ nodes[i].endColumn >= 0
    /\ (nodes[i].startLine = nodes[i].endLine => nodes[i].startColumn <= nodes[i].endColumn)

\* The match of the Liquid pass that built node n: the place of the token
\* that starts at the node's start position.
MatchOf(n) ==
  CHOOSE i \in 1..Len(source) : Offset(i) = getLineStart(n.startLine) + n.startColumn

\* Line breaks inside the source range node n was produced from: the byte
\* range of the CST node, the whole template for the Liquid file node, the
\* regular expression's match for the other Liquid nodes.
LineBreaksIn(n) ==
  IF n.language # "liquid" THEN cur.step * (n.endColumn - n.startColumn)
  ELSE IF n.kind = "file" THEN Cardinality(Newlines)
  ELSE LET i == MatchOf(n) IN
       Cardinality({ p \in Newlines : p >= Offset(i) /\ p < Offset(i) + MatchLen(source[i]) })

\* C11 (as stated): for every emitted node, endLine - startLine is the number
\* of line breaks inside the source range the node was produced from.
LineSpanIsRangeLineBreaks ==
  \A i \in Emitted : nodes[i].endLine - nodes[i].startLine = LineBreaksIn(nodes[i])

\* The CST nodes read so far whose type is in `types` of the policy.
NodesRead(types) ==
  { k \in 1..Len(input) : language \in PolicyLanguages /\ input[k].type \in types }

\* The unresolved references of `kind` recorded at the position of CST node n.
RefsAt(n, kind) ==
  { j \in 1..Len(unresolvedReferences) :
      /\ unresolvedReferences[j].referenceKind = kind
      /\ unresolvedReferences[j].line = n.row + 1
      /\ unresolvedReferences[j].column = n.col }

\* C12 (as stated): every import node with a non-empty module name yields one
\* unresolved reference of kind imports to that module, from the innermost
\* open scope or, at top level, from the file.
ImportsYieldReference ==
  \A k \in NodesRead(IF language \in PolicyLanguages THEN E.importTypes ELSE {}) :
    input[k].module # "" =>
      /\ Cardinality(RefsAt(input[k], "imports")) = 1
      /\ \A j \in RefsAt(input[k], "imports") :
           /\ unresolvedReferences[j].referenceName = input[k].module
           /\ unresolvedReferences[j].fromNodeId \in NodeIds \cup {PathStr(file)}

\* The kind of the node emitted for a function or method typed CST node of
\* type t that visitNode dispatches with the current scope stack.
DispatchKind(t) ==
  IF t \in E.functionTypes
  THEN (IF nodeStack # <<>> /\ t \in E.methodTypes THEN "method" ELSE "function")
  ELSE IF nodeStack # <<>> \/ language = "go" THEN "method" ELSE "function"

\* This step hands the CST node input'[pos'] to the handler h.
Dispatched(h) ==
  /\ pc = "walk"
  /\ frames # <<>>
  /\ Last(frames).mode # "calls"
  /\ pos' = pos + 1
  /\ Dispatch(Last(frames).mode, input'[pos']) = h

\* C13: a CST node with a resolvable name that visitNode dispatches is emitted
\* as one node, of kind `method` when its type is in functionTypes and in
\* methodTypes and the scope stack is not empty, of kind `function` when its
\* type is in functionTypes otherwise; a node whose type is in methodTypes only
\* is a `method` when the stack is not empty or the language is Go, and a
\* `function` otherwise.
FunctionMethodDispatch ==
  [][ ((Dispatched("extractFunction") \/ Dispatched("extractMethod"))
         /\ extractName(input'[pos']) # "<anonymous>")
        => /\ Len(nodes') = Len(nodes) + 1
           /\ Last(nodes').kind = DispatchKind(input'[pos'].type) ]_vars

\* A Kotlin file with a top level function and a function in a class body.
FunctionMethodDispatchWitness ==
  /\ language = "kotlin"
  /\ \E i, j \in Emitted :
       /\ nodes[i].kind = "function" /\ scopes[i] = <<>>
       /\ nodes[j].kind = "method" /\ scopes[j] # <<>>

\* C14 (as stated): when the generic walker dispatches a node whose type is in
\* interfaceTypes, structTypes or enumTypes, it emits the node, pushes its id
\* onto the scope stack and walks the body under it, popping the id when the
\* body is done.
TypeDeclarationOpensScope ==
  [][ (\E h \in {"extractInterface", "extractStruct", "extractEnum"} : Dispatched(h))
        => /\ Len(nodes') = Len(nodes) + 1
           /\ nodeStack' = Append(nodeStack, Last(nodes').id)
           /\ Len(frames') = Len(frames) + 1
           /\ Last(frames').mode = "visit"
           /\ Last(frames').pop ]_vars

\* The references this step appended to unresolvedReferences.
NewReferences ==
  SubSeq(unresolvedReferences', Len(unresolvedReferences) + 1, Len(unresolvedReferences'))

\* The reference kind C15 states for the j-th delegation specifier of h.
KotlinSpecifierKind(h, j) ==
  IF h[j].inner = "user_type" THEN "implements"
  ELSE IF \E i \in 1..(j - 1) : h[i].inner = "constructor_invocation" THEN "implements"
  ELSE "extends"

\* C15 (as stated): a Kotlin class, enum or object declaration yields one
\* reference per delegation specifier, in order: `extends` for the first
\* specifier that holds a constructor_invocation, `implements` for every later
\* one, and `implements` for a plain user_type, which does not change which
\* constructor_invocation counts as the first.
KotlinInheritanceKinds ==
  [][ (\E h \in {"extractKotlinClass", "extractKotlinEnum", "extractKotlinObject"} :
         Dispatched(h))
        => LET h == input'[pos'].heritage IN
           /\ Len(NewReferences) = Len(h)
           /\ \A j \in 1..Len(h) :
                /\ NewReferences[j].referenceName = h[j].names[1]
                /\ NewReferences[j].referenceKind = KotlinSpecifierKind(h, j) ]_vars

\* The declaration is a Swift class: a class_declaration that is not a struct,
\* an actor, an extension or an enum.
IsSwiftClass(n) ==
  /\ n.type = "class_declaration"
  /\ getSwiftDeclarationKind(n.keywords) \notin {"struct", "actor", "extension", "enum"}

\* C16 (as stated): a Swift declaration yields one reference per inheritance
\* specifier, in order: the first is `extends` when the declaration is a class
\* and `implements` when it is a struct, actor, extension, enum or protocol;
\* every later one is `implements`.
SwiftInheritanceKinds ==
  [][ (\E h \in {"extractSwiftClassDeclaration", "extractSwiftProtocol"} : Dispatched(h))
        => LET n == input'[pos'] IN
           /\ Len(NewReferences) = Len(n.heritage)
           /\ \A j \in 1..Len(n.heritage) :
                /\ NewReferences[j].referenceName = n.heritage[j].names[1]
                /\ NewReferences[j].referenceKind =
                     (IF j = 1 /\ IsSwiftClass(n) THEN "extends" ELSE "implements") ]_vars

\* getVisibility was applied to a declaration that carries no modifier.
DefaultRead == pc = "visibility" /\ input[1].modifiers = ""

\* C17 (as stated): without a visibility modifier the visibility is `private`
\* for Rust, `public` for PHP and Kotlin, `internal` for C# and Swift, and
\* absent for every other language of the policy table.
DefaultVisibilityAsStated ==
  DefaultRead =>
    result[1] = (CASE language = "rust" -> "private"
                   [] language \in {"php", "kotlin"} -> "public"
                   [] language \in {"csharp", "swift"} -> "internal"
                   [] OTHER -> None)

\* C17 (amended): without a visibility modifier the visibility is `private`
\* for Rust and C#, `public` for PHP, Kotlin and Ruby, `internal` for Swift,
\* and absent for every other language of the policy table.
DefaultVisibilityByPolicy ==
  DefaultRead =>
    result[1] = (CASE language \in {"rust", "csharp"} -> "private"
                   [] language \in {"php", "kotlin", "ruby"} -> "public"
                   [] language = "swift" -> "internal"
                   [] OTHER -> None)

\* A C# declaration without a modifier was read as private.
DefaultVisibilityByPolicyWitness ==
  DefaultRead /\ language = "csharp" /\ result = <<"private">>

\* C18 (as stated): a declaration without a resolvable name and a Liquid
\* schema block with malformed JSON are skipped silently: no node is emitted
\* for them (so no emitted node carries a placeholder name, and no schema
\* constant comes from a malformed block) and no error record is added (an
\* error record only follows a failure of the parser or the walk).
AnomalySkippedSilently ==
  /\ \A i \in Emitted :
       /\ nodes[i].name \notin {"<anonymous>", "<unknown>"}
       /\ (nodes[i].language = "liquid" /\ nodes[i].kind = "constant")
            => source[MatchOf(nodes[i])].json # "bad"
  /\ errors # <<>> => \E k \in 1..Len(input) : input[k].type \in Thrown

\* The Liquid extraction is past createFileNode, which did not throw.
LiquidFileEmitted == language = "liquid" /\ pc # "start" /\ ~Read({"!liquid"})

\* C19: a Liquid extraction emits one file node, first in the node list; every
\* other node is a component, constant or variable and has its own contains
\* edge from the file node's id, in the order of emission; there is no other
\* edge.
LiquidContainment ==
  LiquidFileEmitted =>
    /\ nodes # <<>>
    /\ nodes[1].kind = "file"
    /\ \A i \in 2..Len(nodes) : nodes[i].kind \in {"component", "constant", "variable"}
    /\ Len(edges) = Len(nodes) - 1
    /\ \A k \in 1..Len(edges) :
         edges[k] = [source |-> nodes[1].id, target |-> nodes[k + 1].id, kind |-> "contains"]

\* A returned Liquid extraction with a component, a constant and a variable.
LiquidContainmentWitness ==
  /\ LiquidFileEmitted
  /\ Returned
  /\ \A kind \in {"component", "constant", "variable"} :
       \E i \in Emitted : nodes[i].kind = kind

\* The render, include and section tags the passes run so far have matched, in
\* the order of the passes.
TagsMatched ==
  (IF pc \in {"start", "liquid1"} THEN <<>> ELSE Matches("snippet"))
    \o (IF pc \in {"start", "liquid1", "liquid2"} THEN <<>> ELSE Matches("section"))

ComponentNodes == SelectSeq(nodes, LAMBDA n : n.kind = "component")

\* The directory a tag's reference names.
TagDirectory(tag) ==
  CASE tag \in {"render", "include"} -> "snippets/"
    [] tag = "section" -> "sections/"

\* C20: in a Liquid extraction every render, include and section match has
\* its own component node named after the tag's argument X and its own
\* reference of kind references from the file node to snippets/X.liquid
\* (render, include) or sections/X.liquid (section); schema blocks and
\* assigns add no reference, so there are as many references as component
\* nodes.
LiquidReferences ==
  LiquidFileEmitted =>
    /\ Len(ComponentNodes) = Len(TagsMatched)
    /\ Len(unresolvedReferences) = Len(ComponentNodes)
    /\ \A k \in 1..Len(TagsMatched) :
         LET tok == source[TagsMatched[k]]
         IN /\ ComponentNodes[k].name = tok.name
            /\ unresolvedReferences[k].fromNodeId = nodes[1].id
            /\ unresolvedReferences[k].referenceKind = "references"
            /\ unresolvedReferences[k].referenceName
                 = TagDirectory(tok.tag) \o tok.name \o ".liquid"

\* A returned Liquid extraction of a template with a render or include tag, a
\* section tag and a schema block or an assign.
LiquidReferencesWitness ==
  /\ LiquidFileEmitted
  /\ Returned
  /\ Matches("snippet") # <<>>
  /\ Matches("section") # <<>>
  /\ Len(nodes) > Len(unresolvedReferences) + 1

\* This step calls visitNode, or the body walk of a Kotlin or Swift handler,
\* on a CST node of type t.
Visited(t) ==
  /\ pc = "walk"
  /\ frames # <<>>
  /\ Last(frames).mode # "calls"
  /\ pos' = pos + 1
  /\ input'[pos'].type = t

\* This step emitted one node, with a contains edge from the node of kind
\* `kind` whose id is on top of the scope stack.
EmittedUnder(kind) ==
  /\ Len(nodes') = Len(nodes) + 1
  /\ nodeStack # <<>>
  /\ edges' = Append(edges, [source |-> Last(nodeStack), target |-> Last(nodes').id,
                             kind |-> "contains"])
  /\ \E i \in Emitted : nodes[i].id = Last(nodeStack) /\ nodes[i].kind = kind

IsStatic(node) == "isStatic" \in DOMAIN node /\ node.isStatic

\* The kind C21 states for a Kotlin class_declaration with these keyword tokens.
KotlinKind(keywords) ==
  IF \E i \in 1..Len(keywords) : keywords[i] = "interface" THEN "interface"
  ELSE IF \E i \in 1..Len(keywords) : keywords[i] = "enum" THEN "enum"
  ELSE "class"

\* C21: a Kotlin class_declaration that visitNode dispatches is emitted as an
\* interface when it has an `interface` token, else as an enum when it has an
\* `enum` token, else as a class; an enum_entry of the enum's body is emitted
\* as an enum_member contained in the enum; an object_declaration is emitted
\* as a class; a companion_object is emitted as a class named by its
\* identifier, or Companion, with isStatic true, and a declaration of its body
\* is contained in it.
KotlinRouting ==
  [][ language = "kotlin" =>
        LET n == input'[pos'] IN
        /\ Visited("class_declaration") =>
             /\ Len(nodes') = Len(nodes) + 1
             /\ Last(nodes').kind = KotlinKind(n.keywords)
        /\ (Visited("enum_entry") /\ Last(frames).type = "class_declaration") =>
             /\ EmittedUnder("enum")
             /\ Last(nodes').kind = "enum_member"
        /\ Visited("object_declaration") =>
             /\ Len(nodes') = Len(nodes) + 1
             /\ Last(nodes').kind = "class"
        /\ Visited("companion_object") =>
             /\ Len(nodes') = Len(nodes) + 1
             /\ Last(nodes').kind = "class"
             /\ Last(nodes').name = (IF n.ident # None THEN n.ident ELSE "Companion")
             /\ IsStatic(Last(nodes'))
        /\ (pc = "walk" /\ frames # <<>> /\ Last(frames).type = "companion_object"
              /\ Len(nodes') > Len(nodes)) =>
             /\ EmittedUnder("class")
             /\ \E i \in Emitted : nodes[i].id = Last(nodeStack) /\ IsStatic(nodes[i]) ]_vars

\* A Kotlin class whose companion object, named Companion, declares a member.
KotlinRoutingWitness ==
  /\ language = "kotlin"
  /\ \E i, j \in Emitted :
       /\ IsStatic(nodes[i])
       /\ nodes[i].name = "Companion"
       /\ scopes[i] # <<>>
       /\ \E k \in 1..Len(edges) : edges[k].source = nodes[i].id /\ edges[k].target = nodes[j].id

\* The first of the five declaration-kind tokens among the keywords.
FirstKindToken(keywords) ==
  LET ks == SelectSeq(keywords,
                      LAMBDA k : k \in {"class", "struct", "actor", "extension", "enum"})
  IN IF ks = <<>> THEN None ELSE ks[1]

\* The kind C22 states for a Swift class_declaration with this token.
SwiftKind(token) ==
  CASE token = "class" -> "class"
    [] token = "struct" -> "struct"
    [] token = "actor" -> "class"
    [] token = "extension" -> "class"
    [] token = "enum" -> "enum"

\* C22: a Swift class_declaration that visitNode dispatches is emitted with
\* kind class, struct, class, class or enum when its first declaration-kind
\* token is class, struct, actor, extension or enum; the name of an extension
\* is the name of the extended type, followed by one space and the text of the
\* type_constraints when there are any; a node emitted directly in the body of
\* the declaration has a contains edge from the declaration's node.
SwiftRouting ==
  [][ language = "swift" =>
        LET n == input'[pos']
            token == FirstKindToken(n.keywords)
        IN
        /\ (Visited("class_declaration") /\ token # None) =>
             /\ Len(nodes') = Len(nodes) + 1
             /\ Last(nodes').kind = SwiftKind(token)
             /\ (token = "extension" /\ n.ident # None) =>
                  Last(nodes').name =
                    n.ident \o (IF n.constraints # "" THEN " " \o n.constraints ELSE "")
        /\ (pc = "walk" /\ frames # <<>> /\ Last(frames).type = "class_declaration"
              /\ Len(nodes') > Len(nodes)) =>
             /\ Len(nodes') = Len(nodes) + 1
             /\ nodeStack # <<>>
             /\ edges' = Append(edges, [source |-> Last(nodeStack), target |-> Last(nodes').id,
                                        kind |-> "contains"])
             /\ \E i \in Emitted :
                  /\ nodes[i].id = Last(nodeStack)
                  /\ nodes[i].name = Last(frames).name
                  /\ nodes[i].kind \in {"class", "struct", "enum"} ]_vars

\* A Swift extension with a where clause that declares a member, and a struct.
SwiftRoutingWitness ==
  /\ language = "swift"
  /\ \E i, j \in Emitted :
       /\ nodes[i].kind = "class"
       /\ nodes[i].name = "A where T: P"
       /\ \E k \in 1..Len(edges) : edges[k].source = nodes[i].id /\ edges[k].target = nodes[j].id
  /\ \E i \in Emitted : nodes[i].kind = "struct"

\* C23 (as stated): a second extract() on the same instance returns the
\* nodes (updatedAt aside), edges, unresolved references and errors the first
\* call returned, and the record the first call returned reads, during and
\* after the second call, as it did when it was returned.
ExtractIsRepeatable ==
  run = 3 =>
    /\ ResultOf(first[2]) = first[1]
    /\ Returned =>
         /\ Timeless(Result) = Timeless(first[1])
         /\ Result.errors = first[1].errors

\* Node a starts no later than node b.
StartsNoLater(a, b) ==
  \/ a.startLine < b.startLine
  \/ a.startLine = b.startLine /\ a.startColumn <= b.startColumn

OrderedByStart(ns) == \A i, j \in 1..Len(ns) : i < j => StartsNoLater(ns[i], ns[j])

\* The source of every contains edge is in the list before the edge's target.
SourceBeforeTarget(r) ==
  \A k \in 1..Len(r.edges) :
    r.edges[k].kind = "contains" =>
      \E i, j \in 1..Len(r.nodes) :
        /\ i < j
        /\ r.nodes[i].id = r.edges[k].source
        /\ r.nodes[j].id = r.edges[k].target

\* C24 (as stated): in the result of an extraction, of the walker or of the
\* Liquid extractor, the nodes are in non-decreasing order of start position
\* and the source of every contains edge is in the list before its target.
OutputInSourceOrder ==
  Returned => OrderedByStart(Result.nodes) /\ SourceBeforeTarget(Result)

\* The pass of the Liquid extractor that built node n, by its rank.
PassRank(n) ==
  LET tok == source[MatchOf(n)] IN
  CASE IsSnippet(tok) -> 1
    [] IsSection(tok) -> 2
    [] IsSchema(tok) -> 3
    [] IsAssign(tok) -> 4

\* C24 (amended): in the result of an extraction the source of every contains
\* edge is in the list before its target; the walker's nodes are in
\* non-decreasing order of start position; the Liquid extractor's nodes are
\* the file node, then the nodes of the render/include pass, of the section
\* pass, of the schema pass and of the assign pass, each pass's nodes in
\* non-decreasing order of start position.
OutputInEmissionOrder ==
  Returned =>
    /\ SourceBeforeTarget(Result)
    /\ language # "liquid" => OrderedByStart(Result.nodes)
    /\ (language = "liquid" /\ Result.nodes # <<>>) =>
         /\ Result.nodes[1].kind = "file"
         /\ \A i, j \in 2..Len(Result.nodes) :
              i < j =>
                \/ PassRank(Result.nodes[i]) < PassRank(Result.nodes[j])
                \/ /\ PassRank(Result.nodes[i]) = PassRank(Result.nodes[j])
                   /\ StartsNoLater(Result.nodes[i], Result.nodes[j])

\* A Liquid template with a section tag before a render tag, and two matches
\* of one pass.
OutputInEmissionOrderWitness ==
  /\ Returned
  /\ language = "liquid"
  /\ \E i, j \in 2..Len(nodes) :
       i < j /\ PassRank(nodes[i]) < PassRank(nodes[j]) /\ ~StartsNoLater(nodes[i], nodes[j])
  /\ \E i, j \in 2..Len(nodes) : i < j /\ PassRank(nodes[i]) = PassRank(nodes[j])

\* The ids the open handlers have pushed and not yet popped, outermost first:
\* one per open frame whose handler pushed, which is the node emitted with
\* that many scopes open.
RECURSIVE Pushed(_)
Pushed(fs) == IF fs = <<>> THEN 0 ELSE (IF fs[1].pop THEN 1 ELSE 0) + Pushed(Tail(fs))

\* C25 (as stated): while the walk runs the scope stack holds exactly the ids
\* pushed by the handlers that are still open, so a handler that returns
\* leaves the stack as it found it and the depth of the stack is below the
\* depth of the CST node being visited; when extract() has returned, also
\* after an exception ended the walk, the stack is empty.
ScopeStackDiscipline ==
  /\ pc = "walk" =>
       /\ Len(nodeStack) = Pushed(frames)
       /\ Len(nodeStack) < Len(frames)
  /\ pc = "done" => nodeStack = <<>>

\* The CST node types the policy of the language declares as function, class,
\* struct, interface or enum.
DeclarationTypes ==
  E.functionTypes \cup E.classTypes \cup E.structTypes \cup E.interfaceTypes \cup E.enumTypes

\* This step reads a named declaration from the parser, wherever in the CST.
ReadsDeclaration ==
  /\ pc = "walk"
  /\ frames # <<>>
  /\ pos' = pos + 1
  /\ input'[pos'].type \in DeclarationTypes
  /\ extractName(input'[pos']) # "<anonymous>"

\* C26 (as stated): every named declaration the walk comes to, at any depth
\* and also inside the body of a function, method or initializer, is emitted
\* as a node, with a contains edge from the scope on top of the stack when
\* there is one.
WalkCoversNestedDeclarations ==
  [][ ReadsDeclaration =>
        /\ Len(nodes') = Len(nodes) + 1
        /\ nodeStack # <<>> =>
             edges' = Append(edges, [source |-> Last(nodeStack), target |-> Last(nodes').id,
                                     kind |-> "contains"]) ]_vars

\* This step calls extractFunction (from visitNode, or from extractMethod at
\* top level) on a node with no resolvable name.
AnonymousFunctionMet ==
  /\ \/ Dispatched("extractFunction")
     \/ Dispatched("extractMethod") /\ nodeStack = <<>> /\ language # "go"
  /\ extractName(input'[pos']) = "<anonymous>"

\* C27: when extractFunction meets a node with no resolvable name, no node,
\* edge or unresolved reference is added, the scope stack is left as it was
\* and the body is not walked: no call is open for the node and the walk
\* resumes behind it.
AnonymousFunctionIsInert ==
  [][ AnonymousFunctionMet =>
        /\ UNCHANGED <<nodes, edges, unresolvedReferences, nodeStack, frames>>
        /\ cur'.off = input'[pos'].endCol ]_vars

\* An anonymous function was met at top level and inside a class.
AnonymousFunctionIsInertWitness ==
  /\ pc = "walk"
  /\ \E i, j \in 1..pos :
       /\ input[i].type = "arrow_function"
       /\ input[j].type = "arrow_function"
       /\ i < j
       /\ \E k \in (i + 1)..(j - 1) : input[k].type = "class_declaration"
  /\ input[pos].type = "arrow_function"
  /\ Len(nodes) = 1
  /\ Len(frames) = 2

\* This step reads a call-typed CST node, in visitNode or in visitForCalls.
ReadsCall ==
  /\ pc = "walk"
  /\ frames # <<>>
  /\ pos' = pos + 1
  /\ input'[pos'].type \in E.callTypes

\* This step emitted a function, method, class or struct for a CST node that
\* has a body (a protocol requirement has none).
EmitsScope ==
  /\ pc = "walk"
  /\ pos' = pos + 1
  /\ Len(nodes') = Len(nodes) + 1
  /\ Last(nodes').kind \in {"function", "method", "class", "struct"}
  /\ input'[pos'].type # "protocol_function_declaration"

\* This step emitted a property inside a class, struct or other open scope.
EmitsPropertyInScope ==
  /\ pc = "walk"
  /\ pos' = pos + 1
  /\ Len(nodes') = Len(nodes) + 1
  /\ Last(nodes').kind = "property"
  /\ nodeStack # <<>>

\* C28 (as stated): a call-typed node read with a scope on the stack yields
\* exactly one reference of kind calls from the id on top of the stack, and
\* none with an empty stack; and the calls inside every emitted scope are
\* read that way: the body of a function, method, class, struct, initializer
\* or subscript is walked with the node's id pushed, the children of a
\* property of a class are walked under the class.
CallAttribution ==
  [][ /\ ReadsCall =>
           IF nodeStack = <<>> THEN NewReferences = <<>>
           ELSE /\ Len(NewReferences) = 1
                /\ NewReferences[1].referenceKind = "calls"
                /\ NewReferences[1].fromNodeId = Last(nodeStack)
      /\ EmitsScope =>
           /\ Len(frames') = Len(frames) + 1
           /\ nodeStack' = Append(nodeStack, Last(nodes').id)
      /\ EmitsPropertyInScope =>
           /\ Len(frames') = Len(frames) + 1
           /\ nodeStack' = nodeStack ]_vars

\* The call made for connection c got past every rejection: its message was
\* handed to the handler.
Accepted(c) == calls[c].pc \in {"handler", "sent", "returned"} /\ calls[c].body # <<>>
               /\ ~calls[c].body[1].error /\ calls[c].body[1].json # <<>>
               /\ isValidMessage(calls[c].body[1].json[1])

\* send() was called for the request of connection c: by the handler, or by
\* the catch block when the handler threw.
SendCalledFor(c) == Accepted(c) /\ HasId(MessageOf(c)) /\ calls[c].pc \in {"sent", "returned"}

\* The bodies written to the res of connection c that were made for a request.
AnswersOn(c) ==
  { i \in 1..Len(written[c]) : written[c][i].body # <<>> /\ written[c][i].body[1].for # 0 }

\* C29: under any interleaving of concurrent HTTP requests, every accepted
\* JSON-RPC request that has an id receives exactly one HTTP response, which is
\* the response passed to send() for that request, also when two requests in
\* flight carry the same id (neither is left unanswered, neither receives the
\* other's response), and no HTTP response object is written twice.
RequestResponsePairing ==
  /\ \A c \in Connections : Len(written[c]) <= 1
  /\ \A c \in Connections : \A i \in AnswersOn(c) : written[c][i].body[1].for = c
  /\ \A c \in Connections :
       SendCalledFor(c) => Len(written[c]) = 1 /\ AnswersOn(c) = {1}

\* The request of a call is a POST to the configured endpoint.
PostToEndpoint(req) == req.method = "POST" /\ req.url.path = endpoint

\* The request names application/json as its content type.
JsonContentType(req) == includes(req.contentType, "application/json")

\* The body was read, is JSON, and is a JSON-RPC 2.0 message: an object whose
\* jsonrpc is "2.0" and whose method is a string.
JsonRpcBody(body) ==
  /\ ~body.error
  /\ body.json # <<>>
  /\ body.json[1].t = "object"
  /\ body.json[1].jsonrpc = <<Str("2.0")>>
  /\ body.json[1].method # <<>>
  /\ body.json[1].method[1].t = "string"

\* The step answers connection c with one JSON-RPC error response of the given
\* status and does nothing else: no handler is invoked, the map is unchanged.
RejectedWith(c, statusCode) ==
  /\ Len(written'[c]) = Len(written[c]) + 1
  /\ written'[c][Len(written'[c])].status = statusCode
  /\ written'[c][Len(written'[c])].body # <<>>
  /\ written'[c][Len(written'[c])].body[1].error # <<>>
  /\ calls'[c].pc = "returned"
  /\ pendingResponses' = pendingResponses

\* C30: a request that is not a POST to the configured endpoint, has no
\* application/json content type, has a body that cannot be read or parsed as
\* JSON, or is not a JSON-RPC 2.0 message is answered at once with a JSON-RPC
\* error response (404 for the wrong method or path, 400 otherwise); the
\* message handler is not invoked and pendingResponses is unchanged.
RejectionPath ==
  [][\A c \in Connections :
       /\ (calls[c].pc = "idle" /\ calls'[c].pc # "idle")
            => LET req == calls'[c].req[1]
               IN  /\ ~PostToEndpoint(req) => RejectedWith(c, 404)
                   /\ PostToEndpoint(req) /\ ~JsonContentType(req) => RejectedWith(c, 400)
       /\ (calls[c].pc = "readBody" /\ calls'[c].pc # "readBody")
            => (~JsonRpcBody(calls'[c].body[1]) => RejectedWith(c, 400))]_vars

====
